---- MODULE Spec2Model ----
(***************************************************************************)
(* Geyser texture sharing: a state-machine model of the two backend        *)
(* managers (src/src/vulkan/mod.rs, src/src/metal/mod.rs) behind the       *)
(* TextureShareManager trait (src/src/lib.rs).                             *)
(*                                                                         *)
(* Native objects are identified by small integers.  The VkImage and the   *)
(* VkDeviceMemory that a successful create or import binds together carry  *)
(* the index of the SharedTexture that wraps them; native objects that a   *)
(* failing call leaves behind are counted in the record of that call, as   *)
(* nothing can refer to them again.  Every native call whose result the    *)
(* code checks may fail or succeed; which one happens is a                 *)
(* nondeterministic choice.  The Vulkan backend is modelled as built for a *)
(* platform with an external-memory extension (the linux / windows cfg     *)
(* branches, which differ only in the kind of the raw handle).             *)
(***************************************************************************)
EXTENDS Naturals, Sequences, FiniteSets, TLC

\* ---------------------------------------------------------------- bounds
\* SharedTexture values (held or dropped) the callers ever obtain.
MaxTextures == 2
\* Raw handle values (file descriptors, HANDLEs, IOSurface ids) in circulation.
MaxRaw == 2
\* vk::Semaphore objects, and vk::Fence objects, the callers ever create.
MaxSync == 1
\* vk::Semaphore objects, and vk::Fence objects, that imports ever create.
MaxSyncImports == 1
\* Largest counter value a timeline semaphore is signalled to or waited for.
MaxTimeline == 3
\* Longest usage list of a descriptor handed to a usage table.
MaxUsages == 2
\* Calls each thread makes on the shared manager.
MaxCalls == 2
\* Frames the producer of an IPC example renders (NUM_FRAMES).
MaxFrames == 2
\* ImportGeyserTexture events an application sends to the Bevy plugin.
MaxEvents == 2

\* ------------------------------------------------------- value vocabulary
Backends == {"Vulkan", "Metal"}

\* Two Vulkan managers (an exporting and an importing context of one
\* process) and one Metal manager.
Mgrs == {"vkA", "vkB", "mtl"}

\* The managers whose operations Spec runs: one of each backend.
OneOfEach == {"vkA", "mtl"}

Backend(m) == IF m = "mtl" THEN "Metal" ELSE "Vulkan"

RawValues == 1..MaxRaw

\* Option::None for allocations, surfaces and handles.
None == 0
NoHandle == [tag |-> "None", raw |-> None]

\* ApiTextureHandle: the backend tag and the identifying value
\* (VulkanTextureShareHandle.raw_handle / MetalTextureShareHandle.io_surface_id).
ApiTextureHandle(tag, raw) == [tag |-> tag, raw |-> raw]

\* The handles a caller can pass: any tag, any identifying value.
Handles == {ApiTextureHandle(b, r) : b \in Backends, r \in RawValues}

\* GeyserError variants the texture operations return, and Ok.
Ok == "Ok"
InvalidTextureHandle == "InvalidTextureHandle"
Other == "Other"
VulkanApiError == "VulkanApiError"
MetalApiError == "MetalApiError"
MetalInitializationError == "MetalInitializationError"

\* ------------------------------------------------------ TextureDescriptor
\* test_descriptor() of the integration tests.
test_descriptor ==
    [width |-> 256, height |-> 256, format |-> "Rgba8Unorm",
     usage |-> <<"TextureBinding">>]

\* texture_desc of examples/vulkan_to_vulkan.rs.
texture_desc ==
    [width |-> 1024, height |-> 768, format |-> "Rgba8Unorm",
     usage |-> <<"TextureBinding", "RenderAttachment", "CopySrc", "CopyDst">>]

\* desc of test_vulkan_format_mappings, for the second format of its list.
format_mappings_desc ==
    [width |-> 128, height |-> 128, format |-> "Bgra8Unorm",
     usage |-> <<"TextureBinding">>]

\* Two TextureDescriptor values that differ in every field.
Descriptors == {texture_desc, format_mappings_desc}

\* No descriptor: the call takes none.
NoDescriptor == [width |-> 0, height |-> 0, format |-> "None", usage |-> <<>>]

\* An accessor that answers with the format of test_descriptor() for every texture.
format_fixed(self) == "Rgba8Unorm"

\* impl SharedTexture: the accessors read the texture's stored descriptor.
width(self) == self.descriptor.width
height(self) == self.descriptor.height
format(self) == self.descriptor.format
usage(self) == self.descriptor.usage

\* ------------------------------------------------------------ HashMap ops
EmptyMap == [k \in {} |-> None]

\* HashMap::insert: adds the key or replaces the value under it.
MapInsert(map, k, v) == [x \in (DOMAIN map) \cup {k} |-> IF x = k THEN v ELSE map[x]]

\* A removal that forgets nothing: what release would do if it left the entry.
MapKeep(map, k) == map

\* HashMap::remove: the map without the key.
MapRemove(map, k) == [x \in (DOMAIN map) \ {k} |-> map[x]]

\* ----------------------------------------------------------------- state
VARIABLES
    textures,           \* the SharedTexture values handed to callers, in creation order
    exported_resources, \* per manager: raw handle -> vk::DeviceMemory (exported_surfaces
                        \* on Metal: io_surface_id -> IOSurface)
    exported_semaphores,\* per manager: raw handle -> vk::Semaphore
    exported_fences,    \* per manager: raw handle -> vk::Fence
    live_images,        \* VkImage objects of textures, not destroyed
    free_calls,         \* per VkDeviceMemory: how often vkFreeMemory was called on it
    n_raw,              \* external-memory handles the driver has produced
    n_surfaces,         \* IOSurfaces created so far
    semaphores,         \* per vk::Semaphore created: how often it was destroyed
    fences,             \* per vk::Fence created: how often it was destroyed
    mutex,              \* the thread holding the lock of exported_resources, if any
    threads,            \* per thread: the call it is in and how far it got
    lin,                \* the registry and the frees of the calls so far, applied
                        \* one call at a time in the order of their registry steps
    eval,               \* the table function applied last: argument and result
    timeline,           \* the timeline semaphore: counter, and the last call on it
    locks,              \* per manager lock: the thread inside it, if any
    last                \* the most recent call: arguments, result, effects

vars == <<textures, exported_resources, exported_semaphores, exported_fences, semaphores, fences,
          live_images, free_calls, n_raw, n_surfaces, mutex, threads, lin,
          eval, timeline, locks, last>>

\* What the texture and sync calls of the managers never touch.
side_vars == <<eval, timeline, locks>>

\* Not in use: no table function applied, no timeline semaphore, no lock
\* held, no thread sharing the manager.
Unused == <<>>

\* What only calls that run concurrently, step by step, change.
conc_vars == <<mutex, threads, lin>>

\* Threads sharing one manager (an Arc<VulkanTextureShareManager>).
Threads == {"t1", "t2"}

Unlocked == "unlocked"

\* A thread outside of any call.
IdleThread == [pc |-> "idle", op |-> "none", raw |-> None, memory |-> None,
               snapshot |-> EmptyMap]

TexIds == 1..Len(textures)

\* Textures a caller can still pass by reference (not dropped).
HeldTextures == {t \in TexIds : ~textures[t].dropped}

\* The record of one call.  left_images and left_mems count the native
\* objects the call created and neither destroyed nor returned in a texture;
\* freed holds the memory objects it passed to vkFreeMemory; again says that
\* the call repeats the release that went before it (same manager, same
\* handle, and that release returned Ok); pre_* are the state before the call;
\* imported_into is the object an import of a sync handle made its native
\* import call on (None when it made none).
Call(op, m, t, h, result, left_i, left_m, freed) ==
    [op |-> op, mgr |-> m, tex |-> t, handle |-> h, result |-> result,
     left_images |-> left_i, left_mems |-> left_m, freed |-> freed,
     again |-> (op = "release" /\ last.op = "release" /\ last.mgr = m
                /\ last.handle = h /\ last.result = Ok),
     pre_resources |-> exported_resources,
     pre_semaphores |-> exported_semaphores,
     pre_fences |-> exported_fences,
     pre_textures |-> Len(textures),
     descriptor |-> NoDescriptor,
     imported_into |-> None]

NoCall == [op |-> "none", mgr |-> "none", tex |-> 0, handle |-> NoHandle, result |-> Ok,
           left_images |-> 0, left_mems |-> 0, freed |-> {}, again |-> FALSE,
           pre_resources |-> [m \in Mgrs |-> EmptyMap],
           pre_semaphores |-> [m \in Mgrs |-> EmptyMap],
           pre_fences |-> [m \in Mgrs |-> EmptyMap],
           pre_textures |-> 0, descriptor |-> NoDescriptor, imported_into |-> None]

\* VulkanTextureShareManager::new / MetalTextureShareManager::new: empty registries.
Init ==
    /\ textures = <<>>
    /\ exported_resources = [m \in Mgrs |-> EmptyMap]
    /\ exported_semaphores = [m \in Mgrs |-> EmptyMap]
    /\ exported_fences = [m \in Mgrs |-> EmptyMap]
    /\ live_images = {}
    /\ free_calls = [x \in 1..MaxTextures |-> 0]
    /\ n_raw = 0
    /\ n_surfaces = 0
    /\ semaphores = <<>>
    /\ fences = <<>>
    /\ mutex = Unlocked
    /\ threads = Unused
    /\ lin = Unused
    /\ eval = Unused
    /\ timeline = Unused
    /\ locks = Unused
    /\ last = NoCall

\* The same managers, with vkA shared by threads that have made no call yet.
InitThreads ==
    /\ textures = <<>>
    /\ exported_resources = [m \in Mgrs |-> EmptyMap]
    /\ exported_semaphores = [m \in Mgrs |-> EmptyMap]
    /\ exported_fences = [m \in Mgrs |-> EmptyMap]
    /\ live_images = {}
    /\ free_calls = [x \in 1..MaxTextures |-> 0]
    /\ n_raw = 0
    /\ n_surfaces = 0
    /\ semaphores = <<>>
    /\ fences = <<>>
    /\ mutex = Unlocked
    /\ threads = [th \in Threads |-> IdleThread]
    /\ lin = [registry |-> EmptyMap, frees |-> [x \in 1..MaxTextures |-> 0]]
    /\ eval = Unused
    /\ timeline = Unused
    /\ locks = Unused
    /\ last = NoCall

\* A tag test that lets every handle through, whatever backend made it.
TagAlwaysMatches(m, h) == TRUE

\* The backend tag of the handle is the manager's own
\* (match handle { ApiTextureHandle::Vulkan(h) => h, _ => return Err(..) }).
TagMatches(m, h) == h.tag = Backend(m)

\* ------------------------------------------------- Vulkan: create texture
\* A created texture that already records an exported handle.
NewVulkanTextureWithHandle(m, t, descriptor) ==
    [mgr |-> m, descriptor |-> descriptor, backend |-> "Vulkan", allocation |-> t, io_surface |-> None,
     backing |-> t, exported_handle |-> [tag |-> "Vulkan", raw |-> 1], dropped |-> FALSE]

\* The VulkanSharedTexture value create_shareable_texture returns: texture
\* number t wraps image t, bound to the gpu_allocator allocation of memory t.
NewVulkanTexture(m, t, descriptor) ==
    [mgr |-> m, descriptor |-> descriptor, backend |-> "Vulkan", allocation |-> t, io_surface |-> None,
     backing |-> t, exported_handle |-> NoHandle, dropped |-> FALSE]

\* create_shareable_texture on a Vulkan manager.  `fail` is the native step
\* that fails: "image", "alloc", "bind", or "none".
Vulkan_create_shareable_texture(m, descriptor, fail) ==
    /\ Backend(m) = "Vulkan"
    /\ UNCHANGED <<exported_resources, exported_semaphores, exported_fences, semaphores, fences,
                   free_calls, n_raw, n_surfaces>>
    /\ IF fail = "image"
       THEN \* create_image(...)? returns the error; nothing was created
            /\ last' = [Call("create", m, 0, NoHandle, VulkanApiError, 0, 0, {}) EXCEPT !.descriptor = descriptor]
            /\ UNCHANGED <<textures, live_images>>
       ELSE IF fail = "alloc"
       THEN \* allocate(...)? returns the error; the image is not destroyed
            /\ last' = [Call("create", m, 0, NoHandle, VulkanApiError, 1, 0, {}) EXCEPT !.descriptor = descriptor]
            /\ UNCHANGED <<textures, live_images>>
       ELSE IF fail = "bind"
       THEN \* bind_image_memory(...)? returns the error; neither the image
            \* is destroyed nor the allocation given back to the allocator
            /\ last' = [Call("create", m, 0, NoHandle, VulkanApiError, 1, 1, {}) EXCEPT !.descriptor = descriptor]
            /\ UNCHANGED <<textures, live_images>>
       ELSE /\ Len(textures) < MaxTextures
            /\ textures' = Append(textures, NewVulkanTexture(m, Len(textures) + 1, descriptor))
            /\ live_images' = live_images \cup {Len(textures) + 1}
            /\ last' = [Call("create", m, Len(textures) + 1, NoHandle, Ok, 0, 0, {}) EXCEPT !.descriptor = descriptor]
    /\ UNCHANGED <<conc_vars, side_vars>>

\* ------------------------------------------------- Vulkan: export texture
\* export_texture on a Vulkan manager.  `native_ok` is the outcome of
\* vkGetMemoryFdKHR / vkGetMemoryWin32HandleKHR; on a memory object that was
\* already freed the call has undefined behaviour and both outcomes are kept.
\* Every successful call yields a new descriptor / handle for the memory.
Vulkan_export_texture(m, t, native_ok) ==
    /\ Backend(m) = "Vulkan"
    /\ t \in HeldTextures
    /\ UNCHANGED <<textures, exported_semaphores, exported_fences, semaphores, fences, live_images,
                   free_calls, n_surfaces>>
    /\ IF textures[t].backend # "Vulkan"
       THEN \* downcast_ref::<VulkanSharedTexture>() is None
            /\ last' = Call("export", m, t, NoHandle, Other, 0, 0, {})
            /\ UNCHANGED <<exported_resources, n_raw>>
       ELSE IF textures[t].allocation = None
       THEN \* "Texture has no allocation to export"
            /\ last' = Call("export", m, t, NoHandle, Other, 0, 0, {})
            /\ UNCHANGED <<exported_resources, n_raw>>
       ELSE IF ~native_ok
       THEN \* get_external_memory_fd_info(memory)? returns the error
            /\ last' = Call("export", m, t, NoHandle, VulkanApiError, 0, 0, {})
            /\ UNCHANGED <<exported_resources, n_raw>>
       ELSE /\ n_raw < MaxRaw
            /\ n_raw' = n_raw + 1
            /\ exported_resources' = [exported_resources EXCEPT
                   ![m] = MapInsert(@, n_raw + 1, textures[t].allocation)]
            /\ last' = Call("export", m, t, ApiTextureHandle("Vulkan", n_raw + 1), Ok,
                            0, 0, {})
    /\ UNCHANGED <<conc_vars, side_vars>>

\* ------------------------------------------------- Vulkan: import texture
\* The VulkanSharedTexture value import_texture returns: texture number t
\* wraps image t, bound to the imported VkDeviceMemory t; no allocation.
ImportedVulkanTexture(m, t, h, descriptor) ==
    [mgr |-> m, descriptor |-> descriptor, backend |-> "Vulkan", allocation |-> None, io_surface |-> None,
     backing |-> t, exported_handle |-> h, dropped |-> FALSE]

\* import_texture on a Vulkan manager.  `fail` is the native step that
\* fails: "image", "alloc" (the import allocation), "bind", or "none".
Vulkan_import_texture(m, h, descriptor, fail) ==
    /\ Backend(m) = "Vulkan"
    /\ UNCHANGED <<exported_semaphores, exported_fences, semaphores, fences, free_calls, n_raw, n_surfaces>>
    /\ IF ~TagMatches(m, h)
       THEN /\ last' = [Call("import", m, 0, h, InvalidTextureHandle, 0, 0, {}) EXCEPT !.descriptor = descriptor]
            /\ UNCHANGED <<textures, exported_resources, live_images>>
       ELSE IF fail = "image"
       THEN /\ last' = [Call("import", m, 0, h, VulkanApiError, 0, 0, {}) EXCEPT !.descriptor = descriptor]
            /\ UNCHANGED <<textures, exported_resources, live_images>>
       ELSE IF fail = "alloc"
       THEN \* allocate_memory(...)? returns the error; the image stays
            /\ last' = [Call("import", m, 0, h, VulkanApiError, 1, 0, {}) EXCEPT !.descriptor = descriptor]
            /\ UNCHANGED <<textures, exported_resources, live_images>>
       ELSE IF fail = "bind"
       THEN \* bind_image_memory(...)? returns the error; the image and the
            \* imported memory stay, unregistered
            /\ last' = [Call("import", m, 0, h, VulkanApiError, 1, 1, {}) EXCEPT !.descriptor = descriptor]
            /\ UNCHANGED <<textures, exported_resources, live_images>>
       ELSE /\ Len(textures) < MaxTextures
            /\ exported_resources' = [exported_resources EXCEPT
                   ![m] = MapInsert(@, h.raw, Len(textures) + 1)]
            /\ textures' = Append(textures,
                   ImportedVulkanTexture(m, Len(textures) + 1, h, descriptor))
            /\ live_images' = live_images \cup {Len(textures) + 1}
            /\ last' = [Call("import", m, Len(textures) + 1, h, Ok, 0, 0, {}) EXCEPT !.descriptor = descriptor]
    /\ UNCHANGED <<conc_vars, side_vars>>

\* ------------------------------------------------ Vulkan: release handle
\* vkFreeMemory counted per memory object (saturating at 2: freed twice).
FreeMemory(calls, mem) == [calls EXCEPT ![mem] = IF @ < 2 THEN @ + 1 ELSE @]

\* A release that forgets the raw handle in the registry of every manager and
\* frees whatever any of them had registered under it.
Vulkan_release_everywhere(m, h) ==
    /\ Backend(m) = "Vulkan"
    /\ TagMatches(m, h)
    /\ UNCHANGED <<textures, exported_semaphores, exported_fences, semaphores, fences, live_images,
                   n_raw, n_surfaces>>
    /\ LET found == {exported_resources[x][h.raw] :
                        x \in {y \in Mgrs : h.raw \in DOMAIN exported_resources[y]}} IN
       /\ exported_resources' = [x \in Mgrs |-> MapRemove(exported_resources[x], h.raw)]
       /\ free_calls' = [x \in DOMAIN free_calls |->
                            IF x \in found /\ free_calls[x] < 2 THEN free_calls[x] + 1
                            ELSE free_calls[x]]
       /\ last' = Call("release", m, 0, h, Ok, 0, 0, found)
    /\ UNCHANGED <<conc_vars, side_vars>>

\* release_texture_handle on a Vulkan manager.
Vulkan_release_texture_handle(m, h) ==
    /\ Backend(m) = "Vulkan"
    /\ UNCHANGED <<textures, exported_semaphores, exported_fences, semaphores, fences, live_images,
                   n_raw, n_surfaces>>
    /\ IF ~TagMatches(m, h)
       THEN /\ last' = Call("release", m, 0, h, InvalidTextureHandle, 0, 0, {})
            /\ UNCHANGED <<exported_resources, free_calls>>
       ELSE IF h.raw \in DOMAIN exported_resources[m]
       THEN \* remove(&raw_handle_key) is Some(memory): free_memory(memory)
            LET memory == exported_resources[m][h.raw] IN
            /\ exported_resources' = [exported_resources EXCEPT ![m] = MapRemove(@, h.raw)]
            /\ free_calls' = FreeMemory(free_calls, memory)
            /\ last' = Call("release", m, 0, h, Ok, 0, 0, {memory})
       ELSE /\ last' = Call("release", m, 0, h, Ok, 0, 0, {})
            /\ UNCHANGED <<exported_resources, free_calls>>
    /\ UNCHANGED <<conc_vars, side_vars>>

\* A drop that also frees the registered backing memory and forgets its entries.
Vulkan_drop_freeing(t) ==
    /\ t \in HeldTextures
    /\ textures[t].backend = "Vulkan"
    /\ textures' = [textures EXCEPT ![t].dropped = TRUE]
    /\ live_images' = live_images \ {t}
    /\ free_calls' = [free_calls EXCEPT ![textures[t].backing] = IF @ < 2 THEN @ + 1 ELSE @]
    /\ exported_resources' = [m \in Mgrs |->
          [k \in {x \in DOMAIN exported_resources[m] :
                      exported_resources[m][x] # textures[t].backing} |->
              exported_resources[m][k]]]
    /\ last' = Call("drop", textures[t].mgr, t, NoHandle, Ok, 0, 0, {})
    /\ UNCHANGED <<exported_semaphores, exported_fences, semaphores, fences,
                   n_raw, n_surfaces>>
    /\ UNCHANGED <<conc_vars, side_vars>>

\* ------------------------------------------------------ Vulkan: drop
\* Drop for VulkanSharedTexture: destroys the image (and the view, which no
\* operation ever creates); the allocation is not freed.
Vulkan_drop(t) ==
    /\ t \in HeldTextures
    /\ textures[t].backend = "Vulkan"
    /\ textures' = [textures EXCEPT ![t].dropped = TRUE]
    /\ live_images' = live_images \ {t}
    /\ last' = Call("drop", textures[t].mgr, t, NoHandle, Ok, 0, 0, {})
    /\ UNCHANGED <<exported_resources, exported_semaphores, exported_fences, semaphores, fences,
                   free_calls, n_raw, n_surfaces>>
    /\ UNCHANGED <<conc_vars, side_vars>>

\* -------------------------------------------------- Metal: create texture
\* An IOSurface exists as long as something holds a reference to it: a
\* MetalSharedTexture that was not dropped, or a manager's exported_surfaces.
SurfaceAlive(s) ==
    \/ \E t \in HeldTextures : textures[t].io_surface = s
    \/ \E m \in Mgrs : Backend(m) = "Metal" /\ s \in DOMAIN exported_resources[m]

\* The MetalSharedTexture value create_shareable_texture returns.
NewMetalTexture(m, s, descriptor) ==
    [mgr |-> m, descriptor |-> descriptor, backend |-> "Metal", allocation |-> None, io_surface |-> s,
     backing |-> s, exported_handle |-> NoHandle, dropped |-> FALSE]

\* create_shareable_texture on a Metal manager.  `fail` is the native step
\* that fails: "surface" (IOSurface::new), "texture", or "none".
Metal_create_shareable_texture(m, descriptor, fail) ==
    /\ Backend(m) = "Metal"
    /\ UNCHANGED <<exported_resources, exported_semaphores, exported_fences, semaphores, fences,
                   live_images, free_calls, n_raw>>
    /\ IF fail = "surface"
       THEN /\ last' = [Call("create", m, 0, NoHandle, MetalInitializationError, 0, 0, {}) EXCEPT !.descriptor = descriptor]
            /\ UNCHANGED <<textures, n_surfaces>>
       ELSE IF fail = "texture"
       THEN \* the local io_surface is dropped on return: the surface is gone
            /\ last' = [Call("create", m, 0, NoHandle, MetalApiError, 0, 0, {}) EXCEPT !.descriptor = descriptor]
            /\ UNCHANGED <<textures, n_surfaces>>
       ELSE /\ Len(textures) < MaxTextures
            /\ n_surfaces < MaxRaw
            /\ n_surfaces' = n_surfaces + 1
            /\ textures' = Append(textures, NewMetalTexture(m, n_surfaces + 1, descriptor))
            /\ last' = [Call("create", m, Len(textures) + 1, NoHandle, Ok, 0, 0, {}) EXCEPT !.descriptor = descriptor]
    /\ UNCHANGED <<conc_vars, side_vars>>

\* -------------------------------------------------- Metal: export texture
\* export_texture on a Metal manager.
Metal_export_texture(m, t) ==
    /\ Backend(m) = "Metal"
    /\ t \in HeldTextures
    /\ UNCHANGED <<textures, exported_semaphores, exported_fences, semaphores, fences, live_images,
                   free_calls, n_raw, n_surfaces>>
    /\ IF textures[t].backend # "Metal"
       THEN \* downcast_ref::<MetalSharedTexture>() is None
            /\ last' = Call("export", m, t, NoHandle, Other, 0, 0, {})
            /\ UNCHANGED exported_resources
       ELSE IF textures[t].io_surface = None
       THEN \* "Cannot export a Metal texture not backed by an owned IOSurface"
            /\ last' = Call("export", m, t, NoHandle, MetalApiError, 0, 0, {})
            /\ UNCHANGED exported_resources
       ELSE LET io_surface_id == textures[t].io_surface IN
            /\ exported_resources' = [exported_resources EXCEPT
                   ![m] = MapInsert(@, io_surface_id, io_surface_id)]
            /\ last' = Call("export", m, t, ApiTextureHandle("Metal", io_surface_id), Ok,
                            0, 0, {})
    /\ UNCHANGED <<conc_vars, side_vars>>

\* -------------------------------------------------- Metal: import texture
\* The MetalSharedTexture value import_texture returns.
ImportedMetalTexture(m, s, h, descriptor) ==
    [mgr |-> m, descriptor |-> descriptor, backend |-> "Metal", allocation |-> None, io_surface |-> s,
     backing |-> s, exported_handle |-> h, dropped |-> FALSE]

\* import_texture on a Metal manager.  IOSurface::lookup finds the surfaces
\* that are alive; `texture_ok` is the outcome of creating the MTLTexture.
Metal_import_texture(m, h, descriptor, texture_ok) ==
    /\ Backend(m) = "Metal"
    /\ UNCHANGED <<exported_resources, exported_semaphores, exported_fences, semaphores, fences,
                   live_images, free_calls, n_raw, n_surfaces>>
    /\ IF ~TagMatches(m, h)
       THEN /\ last' = [Call("import", m, 0, h, InvalidTextureHandle, 0, 0, {}) EXCEPT !.descriptor = descriptor]
            /\ UNCHANGED textures
       ELSE IF ~SurfaceAlive(h.raw)
       THEN \* "Failed to lookup IOSurface by ID"
            /\ last' = [Call("import", m, 0, h, MetalApiError, 0, 0, {}) EXCEPT !.descriptor = descriptor]
            /\ UNCHANGED textures
       ELSE IF ~texture_ok
       THEN /\ last' = [Call("import", m, 0, h, MetalApiError, 0, 0, {}) EXCEPT !.descriptor = descriptor]
            /\ UNCHANGED textures
       ELSE /\ Len(textures) < MaxTextures
            /\ textures' = Append(textures, ImportedMetalTexture(m, h.raw, h, descriptor))
            /\ last' = [Call("import", m, Len(textures) + 1, h, Ok, 0, 0, {}) EXCEPT !.descriptor = descriptor]
    /\ UNCHANGED <<conc_vars, side_vars>>

\* ------------------------------------------------- Metal: release handle
\* release_texture_handle on a Metal manager: drops the map's reference.
Metal_release_texture_handle(m, h) ==
    /\ Backend(m) = "Metal"
    /\ UNCHANGED <<textures, exported_semaphores, exported_fences, semaphores, fences, live_images,
                   free_calls, n_raw, n_surfaces>>
    /\ IF ~TagMatches(m, h)
       THEN /\ last' = Call("release", m, 0, h, InvalidTextureHandle, 0, 0, {})
            /\ UNCHANGED exported_resources
       ELSE /\ exported_resources' = [exported_resources EXCEPT ![m] = MapRemove(@, h.raw)]
            /\ last' = Call("release", m, 0, h, Ok, 0, 0, {})
    /\ UNCHANGED <<conc_vars, side_vars>>

\* ------------------------------------------------------- Metal: drop
\* MetalSharedTexture has no Drop impl: its fields (the MTLTexture and the
\* IOSurface reference) are released.
Metal_drop(t) ==
    /\ t \in HeldTextures
    /\ textures[t].backend = "Metal"
    /\ textures' = [textures EXCEPT ![t].dropped = TRUE]
    /\ last' = Call("drop", textures[t].mgr, t, NoHandle, Ok, 0, 0, {})
    /\ UNCHANGED <<exported_resources, exported_semaphores, exported_fences, semaphores, fences,
                   live_images, free_calls, n_raw, n_surfaces>>
    /\ UNCHANGED <<conc_vars, side_vars>>


\* ------------------------------------------------ Vulkan: sync primitives
\* VulkanSemaphoreHandle / VulkanFenceHandle: the raw handle value.
SyncHandle(kind, raw) == [tag |-> kind, raw |-> raw]

\* vkDestroySemaphore / vkDestroyFence counted per object.  Every destroy
\* uses up a registry entry, which takes an export to make, so the count
\* stays within the number of raw handles.
Destroy(objs, x) == [objs EXCEPT ![x] = @ + 1]

\* create_exportable_semaphore: a new vk::Semaphore, or the native error.
create_exportable_semaphore(m, native_ok) ==
    /\ Backend(m) = "Vulkan"
    /\ UNCHANGED <<textures, exported_resources, exported_semaphores, exported_fences,
                   fences, live_images, free_calls, n_raw, n_surfaces>>
    /\ IF native_ok
       THEN /\ Len(semaphores) < MaxSync
            /\ semaphores' = Append(semaphores, 0)
            /\ last' = Call("create_semaphore", m, Len(semaphores) + 1, NoHandle, Ok,
                            0, 0, {})
       ELSE /\ UNCHANGED semaphores
            /\ last' = Call("create_semaphore", m, 0, NoHandle, VulkanApiError, 0, 0, {})
    /\ UNCHANGED <<conc_vars, side_vars>>

\* export_semaphore_fd / export_semaphore_win32 of a semaphore the caller
\* holds: registers it under the new raw handle.
export_semaphore(m, sem, native_ok) ==
    /\ Backend(m) = "Vulkan"
    /\ sem \in DOMAIN semaphores
    /\ UNCHANGED <<textures, exported_resources, exported_fences, semaphores, fences,
                   live_images, free_calls, n_surfaces>>
    /\ IF native_ok
       THEN /\ n_raw < MaxRaw
            /\ n_raw' = n_raw + 1
            /\ exported_semaphores' = [exported_semaphores EXCEPT
                   ![m] = MapInsert(@, n_raw + 1, sem)]
            /\ last' = Call("export_semaphore", m, sem, SyncHandle("Semaphore", n_raw + 1),
                            Ok, 0, 0, {})
       ELSE /\ UNCHANGED <<exported_semaphores, n_raw>>
            /\ last' = Call("export_semaphore", m, sem, NoHandle, VulkanApiError, 0, 0, {})
    /\ UNCHANGED <<conc_vars, side_vars>>

\* A semaphore import that makes the native import call on a semaphore the
\* caller already had, when there is one, instead of the one it created.
import_semaphore_into_held(m, raw, create_ok, import_ok) ==
    /\ Backend(m) = "Vulkan"
    /\ UNCHANGED <<textures, exported_resources, exported_semaphores, exported_fences,
                   fences, live_images, free_calls, n_raw, n_surfaces>>
    /\ IF ~create_ok
       THEN /\ UNCHANGED semaphores
            /\ last' = Call("import_semaphore", m, 0, SyncHandle("Semaphore", raw),
                            VulkanApiError, 0, 0, {})
       ELSE /\ Len(semaphores) < MaxSync + MaxSyncImports
            /\ semaphores' = Append(semaphores, 0)
            /\ last' = [Call("import_semaphore", m, Len(semaphores) + 1,
                              SyncHandle("Semaphore", raw),
                              IF import_ok THEN Ok ELSE VulkanApiError, 0, 0, {})
                           EXCEPT !.imported_into = IF Len(semaphores) > 0 THEN 1
                                                    ELSE Len(semaphores) + 1]
    /\ UNCHANGED <<conc_vars, side_vars>>

\* import_semaphore_fd / import_semaphore_win32.  `create_ok` is the outcome
\* of create_exportable_semaphore, `import_ok` that of the native import into
\* the semaphore just created.  The semaphore is returned to the caller; no
\* registry is written.  When the native import fails the semaphore stays,
\* unreturned (Call.tex names it, the result is the error).
import_semaphore(m, raw, create_ok, import_ok) ==
    /\ Backend(m) = "Vulkan"
    /\ UNCHANGED <<textures, exported_resources, exported_semaphores, exported_fences,
                   fences, live_images, free_calls, n_raw, n_surfaces>>
    /\ IF ~create_ok
       THEN \* create_exportable_semaphore()? returns the error
            /\ UNCHANGED semaphores
            /\ last' = Call("import_semaphore", m, 0, SyncHandle("Semaphore", raw),
                            VulkanApiError, 0, 0, {})
       ELSE /\ Len(semaphores) < MaxSync + MaxSyncImports
            /\ semaphores' = Append(semaphores, 0)
            /\ last' = [Call("import_semaphore", m, Len(semaphores) + 1,
                              SyncHandle("Semaphore", raw),
                              IF import_ok THEN Ok ELSE VulkanApiError, 0, 0, {})
                           EXCEPT !.imported_into = Len(semaphores) + 1]
    /\ UNCHANGED <<conc_vars, side_vars>>

\* The record of a release_semaphore / release_fence call: `freed` holds the
\* object it destroyed, `again` says that the call before it was the same.
SyncRelease(op, m, h, destroyed) ==
    [Call(op, m, 0, h, Ok, 0, 0, destroyed) EXCEPT
        !.again = (last.op = op /\ last.mgr = m /\ last.handle = h)]

\* A release that destroys the registered semaphore and keeps its entry.
release_semaphore_keeping(m, raw) ==
    /\ Backend(m) = "Vulkan"
    /\ UNCHANGED <<textures, exported_resources, exported_semaphores, exported_fences, fences,
                   live_images, free_calls, n_raw, n_surfaces>>
    /\ IF raw \in DOMAIN exported_semaphores[m]
       THEN /\ semaphores' = Destroy(semaphores, exported_semaphores[m][raw])
            /\ last' = SyncRelease("release_semaphore", m, SyncHandle("Semaphore", raw),
                                    {exported_semaphores[m][raw]})
       ELSE /\ UNCHANGED semaphores
            /\ last' = SyncRelease("release_semaphore", m, SyncHandle("Semaphore", raw), {})
    /\ UNCHANGED <<conc_vars, side_vars>>

\* A release that looks the raw value up in the texture registry as well:
\* it removes the key from both and frees / destroys what it finds.
release_semaphore_any_registry(m, raw) ==
    /\ Backend(m) = "Vulkan"
    /\ UNCHANGED <<textures, exported_fences, fences, live_images, n_raw, n_surfaces>>
    /\ exported_resources' = [exported_resources EXCEPT ![m] = MapRemove(@, raw)]
    /\ free_calls' = IF raw \in DOMAIN exported_resources[m]
                     THEN FreeMemory(free_calls, exported_resources[m][raw])
                     ELSE free_calls
    /\ IF raw \in DOMAIN exported_semaphores[m]
       THEN /\ semaphores' = Destroy(semaphores, exported_semaphores[m][raw])
            /\ exported_semaphores' = [exported_semaphores EXCEPT ![m] = MapRemove(@, raw)]
            /\ last' = SyncRelease("release_semaphore", m, SyncHandle("Semaphore", raw),
                                    {exported_semaphores[m][raw]})
       ELSE /\ UNCHANGED <<semaphores, exported_semaphores>>
            /\ last' = SyncRelease("release_semaphore", m, SyncHandle("Semaphore", raw), {})
    /\ UNCHANGED <<conc_vars, side_vars>>

\* release_semaphore: removes the entry and destroys the semaphore, if any.
release_semaphore(m, raw) ==
    /\ Backend(m) = "Vulkan"
    /\ UNCHANGED <<textures, exported_resources, exported_fences, fences,
                   live_images, free_calls, n_raw, n_surfaces>>
    /\ IF raw \in DOMAIN exported_semaphores[m]
       THEN /\ semaphores' = Destroy(semaphores, exported_semaphores[m][raw])
            /\ exported_semaphores' = [exported_semaphores EXCEPT ![m] = MapRemove(@, raw)]
            /\ last' = SyncRelease("release_semaphore", m, SyncHandle("Semaphore", raw),
                                    {exported_semaphores[m][raw]})
       ELSE /\ UNCHANGED <<semaphores, exported_semaphores>>
            /\ last' = SyncRelease("release_semaphore", m, SyncHandle("Semaphore", raw), {})
    /\ UNCHANGED <<conc_vars, side_vars>>

\* create_exportable_fence: a new vk::Fence, or the native error.
create_exportable_fence(m, native_ok) ==
    /\ Backend(m) = "Vulkan"
    /\ UNCHANGED <<textures, exported_resources, exported_semaphores, exported_fences,
                   semaphores, live_images, free_calls, n_raw, n_surfaces>>
    /\ IF native_ok
       THEN /\ Len(fences) < MaxSync
            /\ fences' = Append(fences, 0)
            /\ last' = Call("create_fence", m, Len(fences) + 1, NoHandle, Ok, 0, 0, {})
       ELSE /\ UNCHANGED fences
            /\ last' = Call("create_fence", m, 0, NoHandle, VulkanApiError, 0, 0, {})
    /\ UNCHANGED <<conc_vars, side_vars>>

\* export_fence_fd / export_fence_win32 of a fence the caller holds.
export_fence(m, fence, native_ok) ==
    /\ Backend(m) = "Vulkan"
    /\ fence \in DOMAIN fences
    /\ UNCHANGED <<textures, exported_resources, exported_semaphores, semaphores, fences,
                   live_images, free_calls, n_surfaces>>
    /\ IF native_ok
       THEN /\ n_raw < MaxRaw
            /\ n_raw' = n_raw + 1
            /\ exported_fences' = [exported_fences EXCEPT
                   ![m] = MapInsert(@, n_raw + 1, fence)]
            /\ last' = Call("export_fence", m, fence, SyncHandle("Fence", n_raw + 1),
                            Ok, 0, 0, {})
       ELSE /\ UNCHANGED <<exported_fences, n_raw>>
            /\ last' = Call("export_fence", m, fence, NoHandle, VulkanApiError, 0, 0, {})
    /\ UNCHANGED <<conc_vars, side_vars>>

\* import_fence_fd / import_fence_win32: as import_semaphore, for fences.
import_fence(m, raw, create_ok, import_ok) ==
    /\ Backend(m) = "Vulkan"
    /\ UNCHANGED <<textures, exported_resources, exported_semaphores, exported_fences,
                   semaphores, live_images, free_calls, n_raw, n_surfaces>>
    /\ IF ~create_ok
       THEN \* create_exportable_fence()? returns the error
            /\ UNCHANGED fences
            /\ last' = Call("import_fence", m, 0, SyncHandle("Fence", raw),
                            VulkanApiError, 0, 0, {})
       ELSE /\ Len(fences) < MaxSync + MaxSyncImports
            /\ fences' = Append(fences, 0)
            /\ last' = [Call("import_fence", m, Len(fences) + 1, SyncHandle("Fence", raw),
                              IF import_ok THEN Ok ELSE VulkanApiError, 0, 0, {})
                           EXCEPT !.imported_into = Len(fences) + 1]
    /\ UNCHANGED <<conc_vars, side_vars>>

\* release_fence: removes the entry and destroys the fence, if any.
release_fence(m, raw) ==
    /\ Backend(m) = "Vulkan"
    /\ UNCHANGED <<textures, exported_resources, exported_semaphores, semaphores,
                   live_images, free_calls, n_raw, n_surfaces>>
    /\ IF raw \in DOMAIN exported_fences[m]
       THEN /\ fences' = Destroy(fences, exported_fences[m][raw])
            /\ exported_fences' = [exported_fences EXCEPT ![m] = MapRemove(@, raw)]
            /\ last' = SyncRelease("release_fence", m, SyncHandle("Fence", raw),
                                    {exported_fences[m][raw]})
       ELSE /\ UNCHANGED <<fences, exported_fences>>
            /\ last' = SyncRelease("release_fence", m, SyncHandle("Fence", raw), {})
    /\ UNCHANGED <<conc_vars, side_vars>>

\* ------------------------------------------ Vulkan: timeline semaphores
\* The timeline operations of the manager: a 64-bit counter that signals
\* set and waits compare against.  A wait is split into its start and its
\* return, since a signal from another thread can fall in between; a wait
\* without timeout (u64::MAX) that cannot succeed yet does not return.
Timeout == "Timeout"

TimelineValues == 0..MaxTimeline

\* create_exportable_timeline_semaphore(initial_value)
create_exportable_timeline_semaphore(initial_value) ==
    /\ timeline = Unused
    /\ timeline' = [value |-> initial_value, initial |-> initial_value, signalled |-> FALSE,
                    top |-> initial_value, pc |-> "idle", op |-> "create", arg |-> initial_value,
                    finite |-> FALSE, at_start |-> initial_value, signal_during |-> FALSE,
                    before |-> 0, result |-> Ok, returned |-> initial_value]
    /\ UNCHANGED <<textures, exported_resources, exported_semaphores, exported_fences,
                   semaphores, fences, live_images, free_calls, n_raw, n_surfaces,
                   conc_vars, eval, locks, last>>

\* A signal that leaves the counter where it is.
signal_dropped(counter, value) == counter

\* The counter after signal_timeline_semaphore(sem, value).
signal_value(counter, value) == value

\* signal_timeline_semaphore(sem, value): sets the counter.  The caller keeps
\* the values non-decreasing.  `top` is the highest value signalled so far.
signal_timeline_semaphore(value) ==
    /\ timeline # Unused
    /\ value >= timeline.value
    /\ timeline' = [timeline EXCEPT
           !.value = signal_value(timeline.value, value),
           !.signalled = TRUE,
           !.top = IF value > @ THEN value ELSE @,
           !.signal_during = (timeline.pc = "waiting"),
           !.op = IF timeline.pc = "waiting" THEN @ ELSE "signal",
           !.arg = IF timeline.pc = "waiting" THEN @ ELSE value,
           !.result = IF timeline.pc = "waiting" THEN @ ELSE Ok]
    /\ UNCHANGED <<textures, exported_resources, exported_semaphores, exported_fences,
                   semaphores, fences, live_images, free_calls, n_raw, n_surfaces,
                   conc_vars, eval, locks, last>>

\* get_timeline_semaphore_value(sem): the counter, without blocking.
get_timeline_semaphore_value ==
    /\ timeline # Unused
    /\ timeline.pc = "idle"
    /\ timeline' = [timeline EXCEPT !.op = "get", !.arg = 0, !.result = Ok,
                                    !.returned = timeline.value]
    /\ UNCHANGED <<textures, exported_resources, exported_semaphores, exported_fences,
                   semaphores, fences, live_images, free_calls, n_raw, n_surfaces,
                   conc_vars, eval, locks, last>>

\* wait_timeline_semaphore(sem, value, timeout) is called; `finite` says
\* that the timeout is not u64::MAX.  `before` is the value of the wait
\* that went right before this one, if any.
wait_timeline_semaphore(value, finite) ==
    /\ timeline # Unused
    /\ timeline.pc = "idle"
    /\ timeline' = [timeline EXCEPT !.pc = "waiting", !.op = "wait", !.arg = value,
                                    !.finite = finite, !.at_start = timeline.value,
                                    !.signal_during = FALSE, !.result = "pending",
                                    !.before = IF timeline.op = "wait" THEN timeline.arg
                                               ELSE 0]
    /\ UNCHANGED <<textures, exported_resources, exported_semaphores, exported_fences,
                   semaphores, fences, live_images, free_calls, n_raw, n_surfaces,
                   conc_vars, eval, locks, last>>

\* The wait returns success: the counter has reached the value.
wait_timeline_reached ==
    /\ timeline # Unused
    /\ timeline.pc = "waiting"
    /\ timeline.value >= timeline.arg
    /\ timeline' = [timeline EXCEPT !.pc = "idle", !.result = Ok]
    /\ UNCHANGED <<textures, exported_resources, exported_semaphores, exported_fences,
                   semaphores, fences, live_images, free_calls, n_raw, n_surfaces,
                   conc_vars, eval, locks, last>>

\* The wait returns the timeout outcome: the timeout elapsed with the
\* counter below the value.
wait_timeline_timed_out ==
    /\ timeline # Unused
    /\ timeline.pc = "waiting"
    /\ timeline.finite
    /\ timeline.value < timeline.arg
    /\ timeline' = [timeline EXCEPT !.pc = "idle", !.result = Timeout]
    /\ UNCHANGED <<textures, exported_resources, exported_semaphores, exported_fences,
                   semaphores, fences, live_images, free_calls, n_raw, n_surfaces,
                   conc_vars, eval, locks, last>>

\* ----------------------------------------------------------- format tables
\* TextureFormat: the abstract formats.
TextureFormats ==
    {"Rgba8Unorm", "Bgra8Unorm", "Rgba8Srgb", "Bgra8Srgb", "R8Unorm", "Rg8Unorm",
     "R16Float", "Rg16Float", "Rgba16Float", "R16Uint", "R16Sint",
     "R32Float", "Rg32Float", "Rgba32Float", "R32Uint", "R32Sint",
     "Depth32Float", "Depth24Plus", "Depth24PlusStencil8",
     "Rgb10a2Unorm", "Rg11b10Float"}

UnsupportedFormat == "UnsupportedFormat"
UnsupportedTextureFormat == "UnsupportedTextureFormat"

\* A to_wgpu_format whose Rgba8Srgb arm names the linear format.
to_wgpu_format_unorm(fmt) ==
    IF fmt = "Rgba8Srgb" THEN "Rgba8Unorm"
    ELSE [Rgba8Unorm |-> "Rgba8Unorm", Bgra8Unorm |-> "Bgra8Unorm",
          Rgba8Srgb |-> "Rgba8UnormSrgb", Bgra8Srgb |-> "Bgra8UnormSrgb",
          R8Unorm |-> "R8Unorm", Rg8Unorm |-> "Rg8Unorm",
          R16Float |-> "R16Float", Rg16Float |-> "Rg16Float", Rgba16Float |-> "Rgba16Float",
          R16Uint |-> "R16Uint", R16Sint |-> "R16Sint",
          R32Float |-> "R32Float", Rg32Float |-> "Rg32Float", Rgba32Float |-> "Rgba32Float",
          R32Uint |-> "R32Uint", R32Sint |-> "R32Sint",
          Depth32Float |-> "Depth32Float", Depth24Plus |-> "Depth24Plus",
          Depth24PlusStencil8 |-> "Depth24PlusStencil8",
          Rgb10a2Unorm |-> "Rgb10a2Unorm", Rg11b10Float |-> "Rg11b10Ufloat"][fmt]

\* to_wgpu_format: one match arm per abstract format.
to_wgpu_format(fmt) ==
    [Rgba8Unorm |-> "Rgba8Unorm", Bgra8Unorm |-> "Bgra8Unorm",
     Rgba8Srgb |-> "Rgba8UnormSrgb", Bgra8Srgb |-> "Bgra8UnormSrgb",
     R8Unorm |-> "R8Unorm", Rg8Unorm |-> "Rg8Unorm",
     R16Float |-> "R16Float", Rg16Float |-> "Rg16Float", Rgba16Float |-> "Rgba16Float",
     R16Uint |-> "R16Uint", R16Sint |-> "R16Sint",
     R32Float |-> "R32Float", Rg32Float |-> "Rg32Float", Rgba32Float |-> "Rgba32Float",
     R32Uint |-> "R32Uint", R32Sint |-> "R32Sint",
     Depth32Float |-> "Depth32Float", Depth24Plus |-> "Depth24Plus",
     Depth24PlusStencil8 |-> "Depth24PlusStencil8",
     Rgb10a2Unorm |-> "Rgb10a2Unorm", Rg11b10Float |-> "Rg11b10Ufloat"][fmt]

\* The arms of from_wgpu_format that return Ok.
from_wgpu_arms ==
    [Rgba8Unorm |-> "Rgba8Unorm", Bgra8Unorm |-> "Bgra8Unorm",
     Rgba8UnormSrgb |-> "Rgba8Srgb", Bgra8UnormSrgb |-> "Bgra8Srgb",
     R8Unorm |-> "R8Unorm", Rg8Unorm |-> "Rg8Unorm",
     R16Float |-> "R16Float", Rg16Float |-> "Rg16Float", Rgba16Float |-> "Rgba16Float",
     R16Uint |-> "R16Uint", R16Sint |-> "R16Sint",
     R32Float |-> "R32Float", Rg32Float |-> "Rg32Float", Rgba32Float |-> "Rgba32Float",
     R32Uint |-> "R32Uint", R32Sint |-> "R32Sint",
     Depth32Float |-> "Depth32Float", Depth24Plus |-> "Depth24Plus",
     Depth24PlusStencil8 |-> "Depth24PlusStencil8",
     Rgb10a2Unorm |-> "Rgb10a2Unorm", Rg11b10Ufloat |-> "Rg11b10Float"]

\* from_wgpu_format: Ok(format) for the listed arms, the `_` arm otherwise.
from_wgpu_format(fmt) ==
    IF fmt \in DOMAIN from_wgpu_arms
    THEN [result |-> Ok, value |-> from_wgpu_arms[fmt]]
    ELSE [result |-> UnsupportedFormat, value |-> "none"]

\* wgpu_types::TextureFormat values handed to from_wgpu_format: those that
\* to_wgpu_format produces and others of the enum.
WgpuFormats ==
    {to_wgpu_format(f) : f \in TextureFormats} \cup
    {"R8Snorm", "R8Uint", "R8Sint", "R16Unorm", "R16Snorm", "Rg8Snorm", "Rg8Uint", "Rg8Sint",
     "Rg16Uint", "Rg16Sint", "Rg16Unorm", "Rg16Snorm", "Rgba8Snorm", "Rgba8Uint", "Rgba8Sint",
     "Rgb9e5Ufloat", "Rgb10a2Uint", "Rg32Uint", "Rg32Sint", "Rgba16Uint", "Rgba16Sint",
     "Rgba16Unorm", "Rgba16Snorm", "Rgba32Uint", "Rgba32Sint", "Stencil8", "Depth16Unorm",
     "Depth32FloatStencil8", "NV12", "Bc1RgbaUnorm", "Bc1RgbaUnormSrgb", "Bc7RgbaUnorm"}

\* map_texture_format_to_vk: always Ok, one arm per abstract format.
map_texture_format_to_vk(fmt) ==
    [Rgba8Unorm |-> "R8G8B8A8_UNORM", Bgra8Unorm |-> "B8G8R8A8_UNORM",
     Rgba8Srgb |-> "R8G8B8A8_SRGB", Bgra8Srgb |-> "B8G8R8A8_SRGB",
     R8Unorm |-> "R8_UNORM", Rg8Unorm |-> "R8G8_UNORM",
     R16Float |-> "R16_SFLOAT", Rg16Float |-> "R16G16_SFLOAT",
     Rgba16Float |-> "R16G16B16A16_SFLOAT", R16Uint |-> "R16_UINT", R16Sint |-> "R16_SINT",
     R32Float |-> "R32_SFLOAT", Rg32Float |-> "R32G32_SFLOAT",
     Rgba32Float |-> "R32G32B32A32_SFLOAT", R32Uint |-> "R32_UINT", R32Sint |-> "R32_SINT",
     Depth32Float |-> "D32_SFLOAT", Depth24Plus |-> "D24_UNORM_S8_UINT",
     Depth24PlusStencil8 |-> "D24_UNORM_S8_UINT",
     Rgb10a2Unorm |-> "A2R10G10B10_UNORM_PACK32",
     Rg11b10Float |-> "B10G11R11_UFLOAT_PACK32"][fmt]

\* map_texture_format_to_mtl: always Ok, one arm per abstract format.
map_texture_format_to_mtl(fmt) ==
    [Rgba8Unorm |-> "RGBA8Unorm", Bgra8Unorm |-> "BGRA8Unorm",
     Rgba8Srgb |-> "RGBA8Unorm_sRGB", Bgra8Srgb |-> "BGRA8Unorm_sRGB",
     R8Unorm |-> "R8Unorm", Rg8Unorm |-> "RG8Unorm",
     R16Float |-> "R16Float", Rg16Float |-> "RG16Float", Rgba16Float |-> "RGBA16Float",
     R16Uint |-> "R16Uint", R16Sint |-> "R16Sint",
     R32Float |-> "R32Float", Rg32Float |-> "RG32Float", Rgba32Float |-> "RGBA32Float",
     R32Uint |-> "R32Uint", R32Sint |-> "R32Sint",
     Depth32Float |-> "Depth32Float", Depth24Plus |-> "Depth32Float",
     Depth24PlusStencil8 |-> "Depth32Float_Stencil8",
     Rgb10a2Unorm |-> "RGB10A2Unorm", Rg11b10Float |-> "RG11B10Float"][fmt]

\* The state in which a table function is applied: the managers as
\* constructed, no call made.
NothingElse ==
    /\ textures = <<>>
    /\ exported_resources = [m \in Mgrs |-> EmptyMap]
    /\ exported_semaphores = [m \in Mgrs |-> EmptyMap]
    /\ exported_fences = [m \in Mgrs |-> EmptyMap]
    /\ live_images = {}
    /\ free_calls = [x \in 1..MaxTextures |-> 0]
    /\ n_raw = 0
    /\ n_surfaces = 0
    /\ semaphores = <<>>
    /\ fences = <<>>
    /\ mutex = Unlocked
    /\ threads = Unused
    /\ lin = Unused
    /\ timeline = Unused
    /\ last = NoCall

\* Everything but `eval`.
all_but_eval == <<textures, exported_resources, exported_semaphores, exported_fences,
                  semaphores, fences, live_images, free_calls, n_raw, n_surfaces,
                  mutex, threads, lin, timeline, locks, last>>

\* An abstract format to convert, or a wgpu format to convert back.
InitWgpuFormats ==
    /\ NothingElse
    /\ locks = Unused
    /\ \/ \E f \in TextureFormats :
             eval = [fn |-> "none", format |-> f, native |-> "none",
                     back |-> [result |-> "none", value |-> "none"]]
       \/ \E n \in WgpuFormats :
             eval = [fn |-> "to_wgpu_format", format |-> "none", native |-> n,
                     back |-> [result |-> "none", value |-> "none"]]

\* let wgpu_format = to_wgpu_format(format);
apply_to_wgpu_format ==
    /\ eval.fn = "none"
    /\ eval' = [eval EXCEPT !.fn = "to_wgpu_format", !.native = to_wgpu_format(eval.format)]
    /\ UNCHANGED all_but_eval

\* let back = from_wgpu_format(wgpu_format);
apply_from_wgpu_format ==
    /\ eval.fn = "to_wgpu_format"
    /\ eval' = [eval EXCEPT !.fn = "from_wgpu_format", !.back = from_wgpu_format(eval.native)]
    /\ UNCHANGED all_but_eval

NextWgpuFormats == apply_to_wgpu_format \/ apply_from_wgpu_format

SpecWgpuFormats == InitWgpuFormats /\ [][NextWgpuFormats]_vars

\* Two abstract formats to map with the table of one backend.
InitNativeFormats ==
    /\ NothingElse
    /\ locks = Unused
    /\ \E b \in Backends, f \in TextureFormats, g \in TextureFormats :
          eval = [fn |-> "none", backend |-> b, formats |-> <<f, g>>,
                  natives |-> <<"none", "none">>]

\* let vk_format = self.map_texture_format_to_vk(descriptor.format)?; and
\* let pixel_format = self.map_texture_format_to_mtl(descriptor.format)?;
\* for each of the two formats.
apply_map_texture_format ==
    /\ eval.fn = "none"
    /\ eval' = [eval EXCEPT
           !.fn = "map_texture_format",
           !.natives = IF eval.backend = "Vulkan"
                       THEN <<map_texture_format_to_vk(eval.formats[1]),
                              map_texture_format_to_vk(eval.formats[2])>>
                       ELSE <<map_texture_format_to_mtl(eval.formats[1]),
                              map_texture_format_to_mtl(eval.formats[2])>>]
    /\ UNCHANGED all_but_eval

NextNativeFormats == apply_map_texture_format

SpecNativeFormats == InitNativeFormats /\ [][NextNativeFormats]_vars

\* ------------------------------------------------------------ usage tables
\* TextureUsage: the abstract usage flags.
TextureUsages == {"CopySrc", "CopyDst", "TextureBinding", "RenderAttachment", "StorageBinding"}

\* Usage lists of a descriptor, up to MaxUsages long.
UsageLists == UNION {[1..n -> TextureUsages] : n \in 0..MaxUsages}

\* A native bitmask is the set of its flags; empty() is the empty set.
empty == {}

\* A `|=` that overwrites the accumulated bits.
Assign(acc, bits) == bits

\* acc |= bits
OrAssign(acc, bits) == acc \cup bits

\* The match arms of map_texture_usage_to_vk: bits or-ed into image_usage
\* and into image_aspect.
vk_usage_arms ==
    [CopySrc |-> {"TRANSFER_SRC"}, CopyDst |-> {"TRANSFER_DST"},
     TextureBinding |-> {"SAMPLED"}, RenderAttachment |-> {"COLOR_ATTACHMENT"},
     StorageBinding |-> {"STORAGE"}]

vk_aspect_arms ==
    [CopySrc |-> empty, CopyDst |-> empty,
     TextureBinding |-> {"COLOR"}, RenderAttachment |-> {"COLOR"},
     StorageBinding |-> {"COLOR"}]

RECURSIVE vk_usage_loop(_, _, _)
vk_usage_loop(usages, image_usage, image_aspect) ==
    IF usages = <<>> THEN <<image_usage, image_aspect>>
    ELSE vk_usage_loop(Tail(usages),
                       OrAssign(image_usage, vk_usage_arms[Head(usages)]),
                       OrAssign(image_aspect, vk_aspect_arms[Head(usages)]))

\* map_texture_usage_to_vk: (image_usage, image_aspect).
map_texture_usage_to_vk(usages) == vk_usage_loop(usages, empty, empty)

\* The match arms of map_texture_usage_to_mtl.
mtl_usage_arms ==
    [CopySrc |-> {"ShaderRead"}, CopyDst |-> {"ShaderWrite"},
     TextureBinding |-> {"ShaderRead"}, RenderAttachment |-> {"RenderTarget"},
     StorageBinding |-> {"ShaderWrite"}]

RECURSIVE mtl_usage_loop(_, _)
mtl_usage_loop(usages, mtl_usage) ==
    IF usages = <<>> THEN mtl_usage
    ELSE mtl_usage_loop(Tail(usages), OrAssign(mtl_usage, mtl_usage_arms[Head(usages)]))

\* map_texture_usage_to_mtl
map_texture_usage_to_mtl(usages) == mtl_usage_loop(usages, empty)

\* The match arms of to_wgpu_usage.
wgpu_usage_arms ==
    [CopySrc |-> {"COPY_SRC"}, CopyDst |-> {"COPY_DST"},
     TextureBinding |-> {"TEXTURE_BINDING"}, RenderAttachment |-> {"RENDER_ATTACHMENT"},
     StorageBinding |-> {"STORAGE_BINDING"}]

RECURSIVE wgpu_usage_loop(_, _)
wgpu_usage_loop(usages, wgpu_usage) ==
    IF usages = <<>> THEN wgpu_usage
    ELSE wgpu_usage_loop(Tail(usages), OrAssign(wgpu_usage, wgpu_usage_arms[Head(usages)]))

\* to_wgpu_usage
to_wgpu_usage(usages) == wgpu_usage_loop(usages, empty)

\* Two usage lists to map, alone and concatenated.
InitUsages ==
    /\ NothingElse
    /\ locks = Unused
    /\ \E a \in UsageLists, b \in UsageLists :
          eval = [fn |-> "none", a |-> a, b |-> b,
                  of_a |-> empty, of_b |-> empty, of_ab |-> empty]

\* let (vk_usage, _) = self.map_texture_usage_to_vk(&descriptor.usage);
apply_map_texture_usage_to_vk ==
    /\ eval.fn = "none"
    /\ eval' = [eval EXCEPT !.fn = "map_texture_usage_to_vk",
                            !.of_a = map_texture_usage_to_vk(eval.a)[1],
                            !.of_b = map_texture_usage_to_vk(eval.b)[1],
                            !.of_ab = map_texture_usage_to_vk(eval.a \o eval.b)[1]]
    /\ UNCHANGED all_but_eval

\* let mtl_usage = self.map_texture_usage_to_mtl(&descriptor.usage);
apply_map_texture_usage_to_mtl ==
    /\ eval.fn = "none"
    /\ eval' = [eval EXCEPT !.fn = "map_texture_usage_to_mtl",
                            !.of_a = map_texture_usage_to_mtl(eval.a),
                            !.of_b = map_texture_usage_to_mtl(eval.b),
                            !.of_ab = map_texture_usage_to_mtl(eval.a \o eval.b)]
    /\ UNCHANGED all_but_eval

\* let wgpu_usage = to_wgpu_usage(&usage);
apply_to_wgpu_usage ==
    /\ eval.fn = "none"
    /\ eval' = [eval EXCEPT !.fn = "to_wgpu_usage",
                            !.of_a = to_wgpu_usage(eval.a),
                            !.of_b = to_wgpu_usage(eval.b),
                            !.of_ab = to_wgpu_usage(eval.a \o eval.b)]
    /\ UNCHANGED all_but_eval

NextUsages ==
    \/ apply_map_texture_usage_to_vk
    \/ apply_map_texture_usage_to_mtl
    \/ apply_to_wgpu_usage

SpecUsages == InitUsages /\ [][NextUsages]_vars

\* -------------------------------------------------- Bevy plugin: imports
\* The entity an ImportGeyserTexture event names, and the one
\* commands.spawn_empty() makes when it names none.
TargetEntity == 1
SpawnedEntity == 2

\* Extents of the descriptor of an import event.
EventExtents == {1, 2}

\* ImportGeyserTexture events waiting in the reader; the plugin state and
\* the image assets are empty.
InitPlugin ==
    /\ NothingElse
    /\ locks = Unused
    /\ \E f \in TextureFormats, w \in EventExtents, h \in EventExtents,
          e \in {None, TargetEntity} :
          eval = [fn |-> "none",
                  event |-> [format |-> f, width |-> w, height |-> h, target_entity |-> e],
                  warned |-> FALSE,
                  images |-> <<>>,
                  shared_textures |-> EmptyMap]

\* The format match of process_shared_texture_events: its one arm and the
\* `_` arm yield the same image format.
plugin_image_format(fmt) ==
    IF fmt = "Rgba8Unorm" THEN "Rgba8Unorm" ELSE "Rgba8Unorm"

\* process_shared_texture_events, for one import event: the image is made
\* and added to the assets, and the mapping stored, whatever the format.
process_shared_texture_events ==
    /\ eval.fn = "none"
    /\ LET ev == eval.event
           image == [width |-> ev.width, height |-> ev.height,
                     format |-> plugin_image_format(ev.format)]
           entity == IF ev.target_entity # None THEN ev.target_entity ELSE SpawnedEntity
       IN eval' = [eval EXCEPT
              !.fn = "process_shared_texture_events",
              !.warned = ev.format # "Rgba8Unorm",
              !.images = Append(@, image),
              !.shared_textures = MapInsert(@, entity,
                                      [descriptor |-> [width |-> ev.width, height |-> ev.height,
                                                       format |-> ev.format],
                                       image_handle |-> Len(eval.images) + 1])]
    /\ UNCHANGED all_but_eval

NextPlugin == process_shared_texture_events

SpecPlugin == InitPlugin /\ [][NextPlugin]_vars

\* ------------------------------------------- TextureDescriptor as a key
\* Option<String> labels: None, Some("A"), Some("B").
Labels == {<<>>, <<"A">>, <<"B">>}

\* Descriptors with all five fields, as test_texture_descriptor_hash builds.
LabelledDescriptors ==
    [width : {256, 512}, height : {256}, format : {"Rgba8Unorm", "Bgra8Unorm"},
     usage : {<<"TextureBinding">>, <<"TextureBinding", "CopySrc">>}, label : Labels]

\* An equality that leaves the label out.
eq_unlabelled(a, b) ==
    /\ a.width = b.width
    /\ a.height = b.height
    /\ a.format = b.format
    /\ a.usage = b.usage

\* #[derive(PartialEq, Eq)]: field by field, in declaration order.
eq(a, b) ==
    /\ a.width = b.width
    /\ a.height = b.height
    /\ a.format = b.format
    /\ a.usage = b.usage
    /\ a.label = b.label

\* #[derive(Hash)]: every field is fed to the hasher, in declaration order.
hash(a) == <<a.width, a.height, a.format, a.usage, a.label>>

\* HashSet::insert: the value is added unless the set holds an element with
\* the same hash that is eq to it.
HashSetInsert(set, value) ==
    IF \E i \in DOMAIN set : hash(set[i]) = hash(value) /\ eq(set[i], value)
    THEN set
    ELSE Append(set, value)

\* let mut set = HashSet::new(); with desc1 and desc2 built.
InitDescriptorKeys ==
    /\ NothingElse
    /\ locks = Unused
    /\ \E d1 \in LabelledDescriptors, d2 \in LabelledDescriptors :
          eval = [fn |-> "none", desc1 |-> d1, desc2 |-> d2, set |-> <<>>,
                  equal |-> eq(d1, d2)]

\* set.insert(desc1);
insert_desc1 ==
    /\ eval.fn = "none"
    /\ eval' = [eval EXCEPT !.fn = "insert_desc1", !.set = HashSetInsert(@, eval.desc1)]
    /\ UNCHANGED all_but_eval

\* set.insert(desc2);
insert_desc2 ==
    /\ eval.fn = "insert_desc1"
    /\ eval' = [eval EXCEPT !.fn = "insert_desc2", !.set = HashSetInsert(@, eval.desc2)]
    /\ UNCHANGED all_but_eval

NextDescriptorKeys == insert_desc1 \/ insert_desc2

SpecDescriptorKeys == InitDescriptorKeys /\ [][NextDescriptorKeys]_vars

\* ------------------------------------- Vulkan: memory type index on export
\* A u32 mask is the set of the positions 0..31 of its set bits.
\* The builds of the crate: with and without overflow checks.
Builds == {"debug", "release"}

\* 1 << i on u32 where it does not panic: the shift amount wraps at the
\* width, so the result is the mask with bit i % 32 alone.
Shl1(i) == {i % 32}

\* 1 << i panics with "attempt to shift left with overflow" when overflow
\* checks are compiled in and i is not below the width.
ShlOverflows(i, build) == build = "debug" /\ i >= 32

\* (memory_type_bits & (1 << i)) != 0
TypeBitSet(memory_type_bits, i) == memory_type_bits \cap Shl1(i) # {}

\* Bit positions the requirement masks are built from, and the masks.
MaskBits == {0, 1, 2, 3, 31}
MemoryTypeBits == SUBSET MaskBits

\* memory_type_count values a device reports; 33 is past VK_MAX_MEMORY_TYPES,
\* the u32 field can hold it and the code does not check it.
MemoryTypeCounts == {1, 2, 3, 4, 32, 33}

\* (0..memory_type_count).find(..): the first index of the range, from i on,
\* that passes the test; `found` is FALSE for None, `panicked` is TRUE when
\* the test of some index panicked before any passed.
RECURSIVE find_type(_, _, _, _)
find_type(i, memory_type_count, memory_type_bits, build) ==
    IF i >= memory_type_count THEN [found |-> FALSE, index |-> 0, panicked |-> FALSE]
    ELSE IF ShlOverflows(i, build) THEN [found |-> FALSE, index |-> 0, panicked |-> TRUE]
    ELSE IF TypeBitSet(memory_type_bits, i) THEN [found |-> TRUE, index |-> i, panicked |-> FALSE]
    ELSE find_type(i + 1, memory_type_count, memory_type_bits, build)

\* let memory_type_index = (0..count).find(..).unwrap_or(0); where the
\* search does not panic.
memory_type_index(memory_type_count, memory_type_bits, build) ==
    LET r == find_type(0, memory_type_count, memory_type_bits, build)
    IN IF r.found THEN r.index ELSE 0

\* The requirement mask of the image and the type count of the device, as
\* the native queries of export_texture return them, in either build.
InitMemoryTypes ==
    /\ NothingElse
    /\ locks = Unused
    /\ \E c \in MemoryTypeCounts, b \in MemoryTypeBits, build \in Builds :
          eval = [fn |-> "none", build |-> build,
                  memory_type_count |-> c, memory_type_bits |-> b,
                  memory_type_index |-> 0]

\* export_texture, as far as the handle's memory_type_index; the call
\* panics when the search does.
export_memory_type_index ==
    /\ eval.fn = "none"
    /\ eval' =
          IF find_type(0, eval.memory_type_count, eval.memory_type_bits, eval.build).panicked
          THEN [eval EXCEPT !.fn = "panicked"]
          ELSE [eval EXCEPT
                   !.fn = "export_texture",
                   !.memory_type_index =
                       memory_type_index(eval.memory_type_count, eval.memory_type_bits,
                                         eval.build)]
    /\ UNCHANGED all_but_eval

NextMemoryTypes == export_memory_type_index

SpecMemoryTypes == InitMemoryTypes /\ [][NextMemoryTypes]_vars

\* ------------------------------------------ Vulkan: the manager's locks
\* The four Mutex fields of VulkanTextureShareManager.
LockNames == {"allocator", "exported_resources", "exported_semaphores", "exported_fences"}

\* The operations of the manager (the _fd and _win32 variants of one
\* operation lock alike).
ManagerOps ==
    {"create_exportable_semaphore", "export_semaphore", "import_semaphore",
     "create_exportable_fence", "export_fence", "import_fence",
     "release_semaphore", "release_fence",
     "create_shareable_texture", "export_texture", "import_texture",
     "release_texture_handle"}

\* name.lock().unwrap() and the drop of the guard at the end of the
\* statement (of the `if let` in the release operations).
Locked(name) == <<[do |-> "lock", lock |-> name], [do |-> "unlock", lock |-> name]>>

\* The operations that have an error return ahead of their lock statement:
\* create_image failing in create_shareable_texture; a texture of another
\* type, a texture without allocation or a failing native export in
\* export_texture; a handle of another backend or create_image failing in
\* import_texture; a handle of another backend in release_texture_handle; a
\* failing native export in export_semaphore and export_fence.
ReturnsBeforeLock ==
    {"create_shareable_texture", "export_texture", "import_texture",
     "release_texture_handle", "export_semaphore", "export_fence"}

\* A release_texture_handle that returns the memory to the allocator while
\* it holds the texture registry, and a create_shareable_texture that
\* registers the memory while it holds the allocator.
LockProgramNested(op, returns_before_lock) ==
    CASE returns_before_lock -> <<>>
      [] op = "create_shareable_texture" ->
             <<[do |-> "lock", lock |-> "allocator"],
               [do |-> "lock", lock |-> "exported_resources"],
               [do |-> "unlock", lock |-> "exported_resources"],
               [do |-> "unlock", lock |-> "allocator"]>>
      [] op = "release_texture_handle" ->
             <<[do |-> "lock", lock |-> "exported_resources"],
               [do |-> "lock", lock |-> "allocator"],
               [do |-> "unlock", lock |-> "allocator"],
               [do |-> "unlock", lock |-> "exported_resources"]>>
      [] OTHER -> <<>>

\* The lock and unlock steps of one call of an operation, in program order:
\* none when the call returns an error ahead of its lock statement, else the
\* one lock statement of the operation (a call failing after it, as on a
\* failed allocate or bind_image_memory, has locked and unlocked).
LockProgram(op, returns_before_lock) ==
    CASE returns_before_lock -> <<>>
      [] op = "create_shareable_texture" -> Locked("allocator")
      [] op \in {"export_texture", "import_texture", "release_texture_handle"} ->
             Locked("exported_resources")
      [] op \in {"export_semaphore", "release_semaphore"} -> Locked("exported_semaphores")
      [] op \in {"export_fence", "release_fence"} -> Locked("exported_fences")
      [] OTHER -> <<>>

\* Everything but `locks`.
all_but_locks == <<textures, exported_resources, exported_semaphores, exported_fences,
                   semaphores, fences, live_images, free_calls, n_raw, n_surfaces,
                   mutex, threads, lin, timeline, eval, last>>

NotCalling == [op |-> "none", returns_before_lock |-> FALSE, pc |-> 0, held |-> {}]

\* The manager as constructed, shared by the threads; no call is running.
InitLocks ==
    /\ NothingElse
    /\ eval = Unused
    /\ locks = [holder |-> [l \in LockNames |-> Unlocked],
                running |-> [th \in Threads |-> NotCalling],
                calls |-> [th \in Threads |-> 0]]

\* Thread th calls operation op of the shared manager; the call is one that
\* returns ahead of the lock statement, or one that gets to it.
manager_call(th, op, returns_before_lock) ==
    /\ locks.running[th].op = "none"
    /\ locks.calls[th] < MaxCalls
    /\ returns_before_lock => op \in ReturnsBeforeLock
    /\ locks' = [locks EXCEPT !.running[th] =
                    [op |-> op, returns_before_lock |-> returns_before_lock,
                     pc |-> 1, held |-> {}]]
    /\ UNCHANGED all_but_locks

\* The step of th's operation at its program counter, if any.
NextLockStep(th) ==
    LET r == locks.running[th]
        program == LockProgram(r.op, r.returns_before_lock)
    IN IF r.op # "none" /\ r.pc <= Len(program) THEN program[r.pc]
       ELSE [do |-> "none", lock |-> "none"]

\* Mutex::lock: blocks while any thread, the caller included, holds the lock.
manager_lock(th) ==
    /\ NextLockStep(th).do = "lock"
    /\ locks.holder[NextLockStep(th).lock] = Unlocked
    /\ locks' = [locks EXCEPT !.holder[NextLockStep(th).lock] = th,
                              !.running[th].held = @ \cup {NextLockStep(th).lock},
                              !.running[th].pc = @ + 1]
    /\ UNCHANGED all_but_locks

\* The MutexGuard is dropped.
manager_unlock(th) ==
    /\ NextLockStep(th).do = "unlock"
    /\ locks' = [locks EXCEPT !.holder[NextLockStep(th).lock] = Unlocked,
                              !.running[th].held = @ \ {NextLockStep(th).lock},
                              !.running[th].pc = @ + 1]
    /\ UNCHANGED all_but_locks

\* The operation returns to its caller.
manager_return(th) ==
    /\ locks.running[th].op # "none"
    /\ locks.running[th].pc >
          Len(LockProgram(locks.running[th].op, locks.running[th].returns_before_lock))
    /\ locks' = [locks EXCEPT !.running[th] = NotCalling, !.calls[th] = @ + 1]
    /\ UNCHANGED all_but_locks

\* A step of the call thread th is running.
RunningStep(th) == manager_lock(th) \/ manager_unlock(th) \/ manager_return(th)

NextLocks ==
    \/ \E th \in Threads, op \in ManagerOps, returns_before_lock \in BOOLEAN :
          manager_call(th, op, returns_before_lock)
    \/ \E th \in Threads : manager_lock(th)
    \/ \E th \in Threads : manager_unlock(th)
    \/ \E th \in Threads : manager_return(th)

SpecLocks == InitLocks /\ [][NextLocks]_vars

\* The same with the scheduling of the caller's threads: every operation runs
\* on the thread that called it, and a thread that can take its next step
\* (its lock is free, or it has a guard to drop, or it is at its return)
\* and stays able to is scheduled. Mutex promises no order among waiters, so
\* the fairness is weak.
SpecLocksFair ==
    InitLocks /\ [][NextLocks]_vars /\ \A th \in Threads : WF_vars(RunningStep(th))

\* ------------------------------ Vulkan: the allocation made by import_texture
\* VulkanTextureShareHandle values that reach import_texture.
ShareHandles ==
    [raw_handle : 1..MaxRaw, memory_type_index : 0..2, size : {4096, 8192},
     dedicated_allocation : BOOLEAN]

\* An allocation that resolves the memory type against the requirements of
\* the image on the importing device, as export_texture does.
ImportAllocateInfoResolved(vulkan_handle, image, device) ==
    [allocation_size |-> vulkan_handle.size,
     memory_type_index |-> memory_type_index(device.memory_type_count, device.memory_type_bits,
                                             device.build),
     p_next |-> [image |-> image, p_next |-> [fd |-> vulkan_handle.raw_handle]]]

\* alloc_info of import_texture with its p_next chain:
\* MemoryAllocateInfo -> MemoryDedicatedAllocateInfo -> ImportMemoryFdInfoKHR.
ImportAllocateInfo(vulkan_handle, image, device) ==
    [allocation_size |-> vulkan_handle.size,
     memory_type_index |-> vulkan_handle.memory_type_index,
     p_next |-> [image |-> image, p_next |-> [fd |-> vulkan_handle.raw_handle]]]

\* A handle to import and the importing device: its type count and the
\* requirement mask it reports for images.
InitImportAllocate ==
    /\ NothingElse
    /\ locks = Unused
    /\ \E h \in ShareHandles, c \in {1, 2, 4}, b \in MemoryTypeBits :
          eval = [fn |-> "none", vulkan_handle |-> h,
                  device |-> [memory_type_count |-> c, memory_type_bits |-> b,
                              build |-> "release"],
                  images |-> 0, image |-> 0, alloc_info |-> Unused]

\* import_texture up to allocate_memory: the image is created, then the
\* allocation is described.
import_texture_allocate ==
    /\ eval.fn = "none"
    /\ eval' = [eval EXCEPT
           !.fn = "import_texture",
           !.images = @ + 1,
           !.image = eval.images + 1,
           !.alloc_info = ImportAllocateInfo(eval.vulkan_handle, eval.images + 1, eval.device)]
    /\ UNCHANGED all_but_eval

SpecImportAllocate == InitImportAllocate /\ [][import_texture_allocate]_vars

\* ------------------------------------------------- Metal: shared events
\* A Metal manager with no shared event created yet; `eval` holds the
\* signaled value of each MTLSharedEvent and the last wait_for_event call.
InitEvents ==
    /\ NothingElse
    /\ locks = Unused
    /\ eval = [events |-> <<>>,
               wait |-> [event |-> None, value |-> 0, before |-> 0, result |-> Ok]]

\* create_shared_event: device.new_shared_event(), signaled value 0.
create_shared_event ==
    /\ Len(eval.events) < MaxSync + 1
    /\ eval' = [eval EXCEPT !.events = Append(@, 0)]
    /\ UNCHANGED all_but_eval

\* signal_event: event.set_signaled_value(value).
signal_event(event, value) ==
    /\ event \in DOMAIN eval.events
    /\ eval' = [eval EXCEPT !.events[event] = value]
    /\ UNCHANGED all_but_eval

\* wait_for_event: one read of signaled_value(); Ok when it has reached the
\* value, Err(Other) at once when it has not.
wait_for_event(event, value) ==
    /\ event \in DOMAIN eval.events
    /\ eval' = [eval EXCEPT !.wait =
                   [event |-> event, value |-> value, before |-> eval.events[event],
                    result |-> IF eval.events[event] >= value THEN Ok ELSE Other]]
    /\ UNCHANGED all_but_eval

SpecEvents ==
    InitEvents /\ [][\/ create_shared_event
                     \/ \E e \in 1..(MaxSync + 1), v \in TimelineValues : signal_event(e, v)
                     \/ \E e \in 1..(MaxSync + 1), v \in TimelineValues : wait_for_event(e, v)]_vars

\* ------------------------------------ examples: file-based IPC channels
\* The two processes of the IPC examples.
Processes == {"producer", "consumer"}

\* IpcMessage values; frame_number is 0 where the variant has none.
Message(type, frame_number) == [type |-> type, frame_number |-> frame_number]

\* What a path holds when it holds no message: no file, or a file with a
\* strict prefix of an encoding.
NoFile == Message("NoFile", 0)
Partial == Message("Partial", 0)

\* IpcChannelPair::producer() / consumer(): the send and the receive path.
SendPath(x) == IF x = "producer" THEN <<"producer_to_consumer", "bin">>
               ELSE <<"consumer_to_producer", "bin">>
ReceivePath(x) == SendPath(CHOOSE y \in Processes : y # x)

\* A temp path that is the channel's own path.
TempPathInPlace(path) == path

\* let temp_path = format!("{}.tmp", self.path);
TempPath(path) == <<path[1], "tmp">>

\* The frame body of a producer that notifies before it signals.
FrameBodyNotifyFirst == <<"send_frame", "render">>

\* The frame body of the producers: render (and, in the timeline example,
\* signal the frame's value), then send FrameReady.
FrameBody == <<"render", "send_frame">>

\* The message a process sends at a program point.
Sending(x, proc) ==
    CASE proc.pc = "send_texture" -> Message("TextureHandle", 0)
      [] proc.pc = "send_semaphore" -> Message("SemaphoreHandle", 0)
      [] proc.pc = "send_ready" ->
             Message(IF x = "producer" THEN "ProducerReady" ELSE "ConsumerReady", 0)
      [] proc.pc = "send_frame" -> Message("FrameReady", proc.frame)
      [] proc.pc = "send_shutdown" -> Message("Shutdown", 0)
      [] OTHER -> Message("none", 0)

\* Where the producer goes after the steps of a frame body, and after the loop.
AfterFrameStep(proc, step) ==
    IF step = FrameBody[1] THEN [proc EXCEPT !.pc = FrameBody[2], !.io = "idle"]
    ELSE IF proc.frame + 1 < MaxFrames
         THEN [proc EXCEPT !.pc = FrameBody[1], !.io = "idle", !.frame = @ + 1]
         ELSE [proc EXCEPT !.pc = "send_shutdown", !.io = "idle", !.frame = @ + 1]

\* The program point after a completed send.
AfterSend(x, proc) ==
    CASE proc.pc = "send_texture" -> [proc EXCEPT !.pc = "send_semaphore", !.io = "idle"]
      [] proc.pc = "send_semaphore" -> [proc EXCEPT !.pc = "send_ready", !.io = "idle"]
      [] proc.pc = "send_ready" ->
             [proc EXCEPT !.pc = IF x = "producer" THEN "receive_ready" ELSE "receive_frame",
                          !.io = "idle"]
      [] proc.pc = "send_frame" -> AfterFrameStep(proc, "send_frame")
      [] proc.pc = "send_shutdown" -> [proc EXCEPT !.pc = "clear_send", !.io = "idle"]

\* main returns an error (`?` or anyhow::bail!): its locals are dropped,
\* `channels` among them.
Bail(proc, error) == [proc EXCEPT !.pc = "drop_send", !.io = "idle", !.error = error]

\* The match on a received message at each receive of the two mains;
\* `received` keeps the messages of the handshake.
AfterReceive(x, proc, m) ==
    LET got == [proc EXCEPT !.received = Append(@, m), !.io = "idle"]
        expect(type, then) == IF m.type = type THEN [got EXCEPT !.pc = then]
                              ELSE Bail(got, "Unexpected")
    IN CASE proc.pc = "receive_texture" -> expect("TextureHandle", "receive_semaphore")
         [] proc.pc = "receive_semaphore" -> expect("SemaphoreHandle", "import")
         [] proc.pc = "receive_producer_ready" -> expect("ProducerReady", "send_ready")
         [] proc.pc = "receive_ready" -> expect("ConsumerReady", FrameBody[1])
         [] proc.pc = "receive_frame" ->
                IF m.type = "FrameReady"
                THEN [proc EXCEPT !.pc = "handle_frame", !.io = "idle",
                                  !.frame = m.frame_number]
                ELSE IF m.type = "Shutdown"
                THEN [proc EXCEPT !.pc = "clear_send", !.io = "idle"]
                ELSE [proc EXCEPT !.io = "idle"]

\* A process after IpcChannelPair::producer() / consumer(), before the
\* Vulkan calls that come ahead of its first channel operation.
Started(x) ==
    [pc |-> "setup", io |-> "idle", frame |-> 0, received |-> <<>>, data |-> NoFile,
     handled |-> <<>>, error |-> "none"]

\* The producer has cleared both channels (clear_all at the start of its
\* main); the consumer is started at any later moment.
InitIpc ==
    /\ NothingElse
    /\ locks = Unused
    /\ \E example \in {"ipc", "timeline_ipc"} :
          eval = [example |-> example,
                  files |-> [path \in {"producer_to_consumer", "consumer_to_producer"}
                                          \X {"bin", "tmp"} |-> NoFile],
                  procs |-> [x \in Processes |-> Started(x)],
                  sent |-> {},
                  counter |-> 0,
                  signalled |-> <<>>]

\* The fallible Vulkan calls of a main between two channel operations, each
\* followed by `?`.  At "setup": create_vulkan_context and the manager, and
\* in the producer the creation and export of the texture and the semaphore.
\* At "import" (consumer): string_to_format, import_texture and the import
\* of the semaphore.  When one fails main returns the error.
vulkan_calls(x, ok) ==
    LET proc == eval.procs[x]
    IN /\ proc.pc \in {"setup", "import"}
       /\ eval' = [eval EXCEPT !.procs[x] =
              IF ~ok THEN Bail(proc, "VulkanApiError")
              ELSE IF proc.pc = "import" THEN [proc EXCEPT !.pc = "receive_producer_ready"]
              ELSE [proc EXCEPT !.pc = IF x = "producer" THEN "send_texture"
                                       ELSE "receive_texture"]]
       /\ UNCHANGED all_but_eval

\* IpcChannel::send, one file system call at a time: fs::write creates or
\* truncates the temp file and fills it, fs::rename moves it over the path.
send(x) ==
    LET proc == eval.procs[x]
        m == Sending(x, proc)
        path == SendPath(x)
        temp_path == TempPath(path)
    IN /\ m.type # "none"
       /\ CASE proc.io = "idle" ->
                  eval' = [eval EXCEPT !.files[temp_path] = Partial,
                                       !.procs[x].io = "writing",
                                       !.sent = @ \cup {<<path, m>>}]
            [] proc.io = "writing" ->
                  eval' = [eval EXCEPT !.files[temp_path] = m,
                                       !.procs[x].io = "written"]
            [] proc.io = "written" ->
                  eval' = [eval EXCEPT
                      !.files = IF temp_path = path THEN @
                                ELSE [@ EXCEPT ![path] = eval.files[temp_path],
                                               ![temp_path] = NoFile],
                      !.procs[x] = AfterSend(x, proc)]
       /\ UNCHANGED all_but_eval

\* IpcChannel::receive, one file system call at a time: the exists() check,
\* then fs::read and deserialize.  The file stays where it is.  A frame
\* loop that has handled MaxFrames + 1 frames is not followed further.
receive(x) ==
    LET proc == eval.procs[x]
        data == eval.files[ReceivePath(x)]
    IN /\ proc.pc \in {"receive_texture", "receive_semaphore", "receive_producer_ready",
                       "receive_ready", "receive_frame"}
       /\ Len(proc.handled) <= MaxFrames
       /\ \/ /\ proc.io = "idle"
             /\ data # NoFile
             /\ eval' = [eval EXCEPT !.procs[x].io = "exists"]
          \/ /\ proc.io = "exists"
             /\ eval' = [eval EXCEPT !.procs[x] =
                    IF data = NoFile THEN [proc EXCEPT !.io = "idle"]
                    ELSE IF data = Partial
                    THEN [Bail(proc, "InvalidData") EXCEPT !.data = data]
                    ELSE [AfterReceive(x, proc, data) EXCEPT !.data = data]]
       /\ UNCHANGED all_but_eval

\* receive gives up: the file was absent at every attempt.
receive_timed_out(x) ==
    /\ eval.procs[x].pc \in {"receive_texture", "receive_semaphore", "receive_producer_ready",
                             "receive_ready", "receive_frame"}
    /\ eval.procs[x].io = "idle"
    /\ eval.files[ReceivePath(x)] = NoFile
    /\ eval' = [eval EXCEPT !.procs[x] = Bail(@, "TimedOut")]
    /\ UNCHANGED all_but_eval

\* The producer renders a frame; in the timeline example it then signals
\* frame_value = frame_num + 1 with signal_timeline_semaphore(..)?, whose
\* error ends the main.  The other example makes no fallible call here.
render(ok) ==
    LET proc == eval.procs["producer"]
    IN /\ proc.pc = "render"
       /\ ok \/ eval.example = "timeline_ipc"
       /\ eval' = IF ~ok
                  THEN [eval EXCEPT !.procs["producer"] = Bail(proc, "VulkanApiError")]
                  ELSE [eval EXCEPT
                           !.procs["producer"] = AfterFrameStep(proc, "render"),
                           !.counter = IF eval.example = "timeline_ipc"
                                       THEN signal_value(@, proc.frame + 1) ELSE @,
                           !.signalled = IF eval.example = "timeline_ipc"
                                         THEN Append(@, proc.frame + 1) ELSE @]
       /\ UNCHANGED all_but_eval

\* The FrameReady arm of the consumer: in the timeline example it waits for
\* frame_number + 1 without timeout and reads the value, each with `?`, whose
\* error ends the main; frames_processed += 1.
handle_frame(ok) ==
    LET proc == eval.procs["consumer"]
    IN /\ proc.pc = "handle_frame"
       /\ ok \/ eval.example = "timeline_ipc"
       /\ ok /\ eval.example = "timeline_ipc" => eval.counter >= proc.frame + 1
       /\ eval' = [eval EXCEPT !.procs["consumer"] =
                      IF ~ok THEN Bail(proc, "VulkanApiError")
                      ELSE [proc EXCEPT !.pc = "receive_frame",
                                        !.handled = Append(@, proc.frame)]]
       /\ UNCHANGED all_but_eval

\* IpcChannel::clear, one file system call at a time: the exists() check,
\* then fs::remove_file, which fails with NotFound when the file has gone
\* in between.  `result` is "pending" after a passed exists() check.
clear(x, path) ==
    LET present == eval.files[path] # NoFile
    IN IF eval.procs[x].io = "idle"
       THEN [files |-> eval.files,
             io |-> IF present THEN "exists" ELSE "idle",
             result |-> IF present THEN "pending" ELSE "Ok"]
       ELSE [files |-> [eval.files EXCEPT ![path] = NoFile],
             io |-> "idle",
             result |-> IF present THEN "Ok" ELSE "NotFound"]

\* channels.clear_all()? at the end of a main: self.send.clear()?, then
\* self.receive.clear()?; an error ends the main at once.
clear_all(x) ==
    LET proc == eval.procs[x]
        call == clear(x, IF proc.pc = "clear_send" THEN SendPath(x) ELSE ReceivePath(x))
    IN /\ proc.pc \in {"clear_send", "clear_receive"}
       /\ eval' = [eval EXCEPT
              !.files = call.files,
              !.procs[x] =
                  CASE call.result = "pending" -> [proc EXCEPT !.io = call.io]
                    [] call.result = "NotFound" -> Bail(proc, "NotFound")
                    [] call.result = "Ok" ->
                         [proc EXCEPT !.io = "idle",
                                      !.pc = IF proc.pc = "clear_send" THEN "clear_receive"
                                             ELSE "drop_send"]]
       /\ UNCHANGED all_but_eval

\* Drop for IpcChannel as `channels` goes out of scope when a main returns:
\* `let _ = self.clear()` for the field send, then for the field receive.
drop(x) ==
    LET proc == eval.procs[x]
        call == clear(x, IF proc.pc = "drop_send" THEN SendPath(x) ELSE ReceivePath(x))
    IN /\ proc.pc \in {"drop_send", "drop_receive"}
       /\ eval' = [eval EXCEPT
              !.files = call.files,
              !.procs[x] =
                  IF call.result = "pending" THEN [proc EXCEPT !.io = call.io]
                  ELSE [proc EXCEPT !.io = "idle",
                                    !.pc = IF proc.pc = "drop_send" THEN "drop_receive"
                                           ELSE "returned"]]
       /\ UNCHANGED all_but_eval

SpecIpc ==
    InitIpc /\ [][\/ \E x \in Processes, ok \in BOOLEAN : vulkan_calls(x, ok)
                  \/ \E x \in Processes : send(x)
                  \/ \E x \in Processes : receive(x)
                  \/ \E x \in Processes : receive_timed_out(x)
                  \/ \E ok \in BOOLEAN : render(ok)
                  \/ \E ok \in BOOLEAN : handle_frame(ok)
                  \/ \E x \in Processes : clear_all(x)
                  \/ \E x \in Processes : drop(x)]_vars

\* ------------------------------------- Bevy plugin: the Update systems
\* GeyserPlugin::build adds process_shared_texture_events and
\* cleanup_expired_textures to Update as a tuple with no ordering between
\* them.  Both take ResMut<GeyserState>, so in a frame they run one after
\* the other, in either order, and the commands the first one queued are
\* applied to the world only after both have run.
UpdateSystems == {"process_shared_texture_events", "cleanup_expired_textures"}

\* The world holds TargetEntity; no event was sent and no system has run.
\* `imported` remembers the entities that import events were processed for.
InitPluginSystems ==
    /\ NothingElse
    /\ locks = Unused
    /\ eval = [events |-> <<>>,
               sent |-> 0,
               entities |-> {TargetEntity},
               components |-> {},
               commands |-> <<>>,
               spawned |-> 0,
               shared_textures |-> {},
               imported |-> {},
               ran |-> {}]

\* EventWriter<ImportGeyserTexture>::send, naming a live entity or none.
send_import_event(target_entity) ==
    /\ eval.sent < MaxEvents
    /\ target_entity # None => target_entity \in eval.entities
    /\ eval' = [eval EXCEPT !.events = Append(@, target_entity), !.sent = @ + 1]
    /\ UNCHANGED all_but_eval

\* The import loop of process_shared_texture_events: spawn_empty() reserves
\* an entity and queues its spawn, commands.entity(entity).insert(..) queues
\* the component, and state.shared_textures.insert(..) acts at once.
RECURSIVE import_events_read(_, _)
import_events_read(events, state) ==
    IF events = <<>> THEN state
    ELSE LET spawn == Head(events) = None
             entity == IF spawn THEN SpawnedEntity + state.spawned ELSE Head(events)
         IN import_events_read(Tail(events),
                [state EXCEPT
                    !.spawned = IF spawn THEN @ + 1 ELSE @,
                    !.commands = @ \o (IF spawn THEN << <<"spawn_empty", entity>> >> ELSE <<>>)
                                   \o << <<"insert", entity>> >>,
                    !.shared_textures = @ \cup {entity},
                    !.imported = @ \cup {entity}])

\* process_shared_texture_events as it runs in a frame: it reads every
\* pending import event.
process_shared_texture_events_system ==
    /\ "process_shared_texture_events" \notin eval.ran
    /\ eval' = [import_events_read(eval.events, eval) EXCEPT
                   !.events = <<>>,
                   !.ran = @ \cup {"process_shared_texture_events"}]
    /\ UNCHANGED all_but_eval

\* cleanup_expired_textures: retain the entries whose entity is matched by
\* Query<Entity, With<GeyserSharedTexture>>.
cleanup_expired_textures ==
    /\ "cleanup_expired_textures" \notin eval.ran
    /\ eval' = [eval EXCEPT
                   !.shared_textures = {entity \in @ : entity \in eval.components},
                   !.ran = @ \cup {"cleanup_expired_textures"}]
    /\ UNCHANGED all_but_eval

\* The queued commands applied to the world, in queue order.
RECURSIVE apply_commands(_, _)
apply_commands(commands, world) ==
    IF commands = <<>> THEN world
    ELSE LET kind == Head(commands)[1]
             entity == Head(commands)[2]
         IN apply_commands(Tail(commands),
                IF kind = "spawn_empty"
                THEN [world EXCEPT !.entities = @ \cup {entity}]
                ELSE IF entity \in world.entities
                     THEN [world EXCEPT !.components = @ \cup {entity}]
                     ELSE world)

\* The sync point after the two systems: the commands reach the world and
\* the frame ends.
apply_deferred ==
    /\ eval.ran = UpdateSystems
    /\ LET world == apply_commands(eval.commands,
                        [entities |-> eval.entities, components |-> eval.components])
       IN eval' = [eval EXCEPT
                      !.entities = world.entities,
                      !.components = world.components,
                      !.commands = <<>>,
                      !.ran = {}]
    /\ UNCHANGED all_but_eval

\* The application despawns an entity between two frames; no pending event
\* names it.
despawn(entity) ==
    /\ eval.ran = {}
    /\ entity \in eval.entities
    /\ \A i \in DOMAIN eval.events : eval.events[i] # entity
    /\ eval' = [eval EXCEPT
                   !.entities = @ \ {entity},
                   !.components = @ \ {entity},
                   !.imported = @ \ {entity}]
    /\ UNCHANGED all_but_eval

SpecPluginSystems ==
    InitPluginSystems /\ [][\/ \E target_entity \in {None, TargetEntity} :
                                  send_import_event(target_entity)
                            \/ process_shared_texture_events_system
                            \/ cleanup_expired_textures
                            \/ apply_deferred
                            \/ \E entity \in TargetEntity .. SpawnedEntity + MaxEvents :
                                  despawn(entity)]_vars

\* ------------------------------------- Vulkan: calls on concurrent threads
\* The calls of one manager (`SharedMgr`) made from several threads.  A call
\* is split where another thread can run in between: before and after the
\* native calls, at Mutex::lock(), and between the read and the write that
\* HashMap::insert / HashMap::remove make on the table.  Only the succeeding
\* path of each call is split; it is the one that reaches the registry.
\* Overlapping calls have no most recent one: `last` keeps the latest call
\* that ran alone.
SharedMgr == "vkA"

\* A lock() that does not wait for the holder.
LockIsFree(holder) == TRUE

\* Mutex::lock() returns only when no thread holds the guard.
CanLock(holder) == holder = Unlocked

\* export_texture up to the registry: the native export of the memory has
\* produced the raw handle.
thread_export_native(th, t) ==
    /\ threads[th].pc = "idle"
    /\ t \in HeldTextures
    /\ textures[t].backend = "Vulkan"
    /\ textures[t].allocation # None
    /\ n_raw < MaxRaw
    /\ n_raw' = n_raw + 1
    /\ threads' = [threads EXCEPT ![th] = [pc |-> "lock", op |-> "export", raw |-> n_raw + 1,
                                           memory |-> textures[t].allocation,
                                           snapshot |-> EmptyMap]]
    /\ UNCHANGED <<textures, exported_resources, exported_semaphores, exported_fences,
                   semaphores, fences, live_images, free_calls, n_surfaces, mutex, lin, last>>
    /\ UNCHANGED side_vars

\* import_texture up to the registry: image created, memory imported and
\* bound.  The texture value exists from here on; the caller gets it when
\* the call returns.
thread_import_native(th, h) ==
    /\ threads[th].pc = "idle"
    /\ TagMatches(SharedMgr, h)
    /\ Len(textures) < MaxTextures
    /\ textures' = Append(textures,
           ImportedVulkanTexture(SharedMgr, Len(textures) + 1, h, test_descriptor))
    /\ live_images' = live_images \cup {Len(textures) + 1}
    /\ threads' = [threads EXCEPT ![th] = [pc |-> "lock", op |-> "import", raw |-> h.raw,
                                           memory |-> Len(textures) + 1,
                                           snapshot |-> EmptyMap]]
    /\ UNCHANGED <<exported_resources, exported_semaphores, exported_fences, semaphores, fences,
                   free_calls, n_raw, n_surfaces, mutex, lin, last>>
    /\ UNCHANGED side_vars

\* release_texture_handle up to the registry: the key is taken from the handle.
thread_release_begin(th, h) ==
    /\ threads[th].pc = "idle"
    /\ TagMatches(SharedMgr, h)
    /\ threads' = [threads EXCEPT ![th] = [pc |-> "lock", op |-> "release", raw |-> h.raw,
                                           memory |-> None, snapshot |-> EmptyMap]]
    /\ UNCHANGED <<textures, exported_resources, exported_semaphores, exported_fences,
                   semaphores, fences, live_images, free_calls, n_raw, n_surfaces, mutex, lin,
                   last>>
    /\ UNCHANGED side_vars

\* self.exported_resources.lock().unwrap()
thread_lock(th) ==
    /\ threads[th].pc = "lock"
    /\ CanLock(mutex)
    /\ mutex' = th
    /\ threads' = [threads EXCEPT ![th].pc = "read"]
    /\ UNCHANGED <<textures, exported_resources, exported_semaphores, exported_fences,
                   semaphores, fences, live_images, free_calls, n_raw, n_surfaces, lin, last>>
    /\ UNCHANGED side_vars

\* insert / remove read the table they are about to change.
thread_read(th) ==
    /\ threads[th].pc = "read"
    /\ threads' = [threads EXCEPT ![th].pc = "write",
                                  ![th].snapshot = exported_resources[SharedMgr]]
    /\ UNCHANGED <<textures, exported_resources, exported_semaphores, exported_fences,
                   semaphores, fences, live_images, free_calls, n_raw, n_surfaces, mutex, lin,
                   last>>
    /\ UNCHANGED side_vars

\* insert(raw_handle, memory) writes the table; the guard is a temporary of
\* the statement and is dropped with it, and the call returns Ok.
thread_insert(th) ==
    LET me == threads[th] IN
    /\ me.pc = "write"
    /\ me.op \in {"export", "import"}
    /\ exported_resources' = [exported_resources EXCEPT
           ![SharedMgr] = MapInsert(me.snapshot, me.raw, me.memory)]
    /\ lin' = [lin EXCEPT !.registry = MapInsert(@, me.raw, me.memory)]
    /\ mutex' = Unlocked
    /\ threads' = [threads EXCEPT ![th] = IdleThread]
    /\ UNCHANGED <<textures, exported_semaphores, exported_fences, semaphores, fences,
                   live_images, free_calls, n_raw, n_surfaces, last>>
    /\ UNCHANGED side_vars

\* remove(&raw_handle_key) writes the table and yields what it found.  The
\* guard is a temporary of the `if let` scrutinee: it lives until the end of
\* the `if let`, so on Some(memory) the lock is held across free_memory.
thread_remove(th) ==
    LET me == threads[th]
        found == IF me.raw \in DOMAIN me.snapshot THEN me.snapshot[me.raw] ELSE None
        lin_found == IF me.raw \in DOMAIN lin.registry THEN lin.registry[me.raw] ELSE None
    IN
    /\ me.pc = "write"
    /\ me.op = "release"
    /\ exported_resources' = [exported_resources EXCEPT
           ![SharedMgr] = MapRemove(me.snapshot, me.raw)]
    /\ lin' = [registry |-> MapRemove(lin.registry, me.raw),
               frees |-> IF lin_found = None THEN lin.frees
                         ELSE FreeMemory(lin.frees, lin_found)]
    /\ IF found = None
       THEN /\ mutex' = Unlocked
            /\ threads' = [threads EXCEPT ![th] = IdleThread]
       ELSE /\ threads' = [threads EXCEPT ![th].pc = "free", ![th].memory = found]
            /\ UNCHANGED mutex
    /\ UNCHANGED <<textures, exported_semaphores, exported_fences, semaphores, fences,
                   live_images, free_calls, n_raw, n_surfaces, last>>
    /\ UNCHANGED side_vars

\* self.device.free_memory(memory, None), then the end of the `if let`
\* drops the guard and the call returns Ok(()).
thread_free(th) ==
    LET me == threads[th] IN
    /\ me.pc = "free"
    /\ free_calls' = FreeMemory(free_calls, me.memory)
    /\ mutex' = Unlocked
    /\ threads' = [threads EXCEPT ![th] = IdleThread]
    /\ UNCHANGED <<textures, exported_resources, exported_semaphores, exported_fences,
                   semaphores, fences, live_images, n_raw, n_surfaces, lin, last>>
    /\ UNCHANGED side_vars

\* ------------------------------------------------------------ behaviours
VulkanSteps == {"none", "image", "alloc", "bind"}
MetalSteps == {"none", "surface", "texture"}

\* The TextureShareManager operations of the managers in M.  An import that
\* is rejected on the handle's tag reaches no native step, so no failing step
\* is drawn for it.
TextureOps(M) ==
    \/ \E m \in M, fail \in VulkanSteps : Vulkan_create_shareable_texture(m, test_descriptor, fail)
    \/ \E m \in M, t \in TexIds, ok \in BOOLEAN : Vulkan_export_texture(m, t, ok)
    \/ \E m \in M, h \in Handles :
          \E fail \in (IF TagMatches(m, h) THEN VulkanSteps ELSE {"none"}) :
             Vulkan_import_texture(m, h, test_descriptor, fail)
    \/ \E m \in M, h \in Handles : Vulkan_release_texture_handle(m, h)
    \/ \E m \in M, fail \in MetalSteps : Metal_create_shareable_texture(m, test_descriptor, fail)
    \/ \E m \in M, t \in TexIds : Metal_export_texture(m, t)
    \/ \E m \in M, h \in Handles :
          \E ok \in (IF TagMatches(m, h) THEN BOOLEAN ELSE {TRUE}) :
             Metal_import_texture(m, h, test_descriptor, ok)
    \/ \E m \in M, h \in Handles : Metal_release_texture_handle(m, h)

\* Dropping a SharedTexture the caller holds.
DropOps ==
    \/ \E t \in TexIds : Vulkan_drop(t)
    \/ \E t \in TexIds : Metal_drop(t)

\* create_shareable_texture of the managers in M.
CreateOps(M) ==
    \/ \E m \in M, fail \in VulkanSteps : Vulkan_create_shareable_texture(m, test_descriptor, fail)
    \/ \E m \in M, fail \in MetalSteps : Metal_create_shareable_texture(m, test_descriptor, fail)

\* export_texture of the managers in M.
ExportOps(M) ==
    \/ \E m \in M, t \in TexIds, ok \in BOOLEAN : Vulkan_export_texture(m, t, ok)
    \/ \E m \in M, t \in TexIds : Metal_export_texture(m, t)

\* Creating and exporting semaphores and fences on the managers in M.
SyncExportOps(M) ==
    \/ \E m \in M, ok \in BOOLEAN : create_exportable_semaphore(m, ok)
    \/ \E m \in M, x \in 1..MaxSync, ok \in BOOLEAN : export_semaphore(m, x, ok)
    \/ \E m \in M, ok \in BOOLEAN : create_exportable_fence(m, ok)
    \/ \E m \in M, x \in 1..MaxSync, ok \in BOOLEAN : export_fence(m, x, ok)

\* Importing semaphores and fences on the managers in M.  Only the first
\* failing step matters: a failed creation is drawn once.
SyncImportOps(M) ==
    \/ \E m \in M, raw \in RawValues, ok \in BOOLEAN : import_semaphore(m, raw, TRUE, ok)
    \/ \E m \in M, raw \in RawValues : import_semaphore(m, raw, FALSE, FALSE)
    \/ \E m \in M, raw \in RawValues, ok \in BOOLEAN : import_fence(m, raw, TRUE, ok)
    \/ \E m \in M, raw \in RawValues : import_fence(m, raw, FALSE, FALSE)

\* Releasing exported semaphores and fences on the managers in M.
SyncReleaseOps(M) ==
    \/ \E m \in M, raw \in RawValues : release_semaphore(m, raw)
    \/ \E m \in M, raw \in RawValues : release_fence(m, raw)

\* Texture lifecycle: the four trait operations on one manager per backend.
Next == TextureOps(OneOfEach)

Spec == Init /\ [][Next]_vars

\* Texture creation and export interleaved with the creation and export of
\* sync primitives, which fill the semaphore and fence registries.
NextWithSync == CreateOps(OneOfEach) \/ ExportOps(OneOfEach) \/ SyncExportOps(OneOfEach)

SpecWithSync == Init /\ [][NextWithSync]_vars

\* The Vulkan texture operations of the managers in M in which every native
\* step succeeds and every handle is a Vulkan handle.
VulkanSucceedingOps(M) ==
    \/ \E m \in M : Vulkan_create_shareable_texture(m, test_descriptor, "none")
    \/ \E m \in M, t \in TexIds : Vulkan_export_texture(m, t, TRUE)
    \/ \E m \in M, r \in RawValues :
          Vulkan_import_texture(m, ApiTextureHandle("Vulkan", r), test_descriptor, "none")
    \/ \E m \in M, r \in RawValues :
          Vulkan_release_texture_handle(m, ApiTextureHandle("Vulkan", r))

\* The Metal texture operations of the managers in M in which every native
\* step succeeds and every handle is a Metal handle.
MetalSucceedingOps(M) ==
    \/ \E m \in M : Metal_create_shareable_texture(m, test_descriptor, "none")
    \/ \E m \in M, t \in TexIds : Metal_export_texture(m, t)
    \/ \E m \in M, r \in RawValues :
          Metal_import_texture(m, ApiTextureHandle("Metal", r), test_descriptor, TRUE)
    \/ \E m \in M, r \in RawValues :
          Metal_release_texture_handle(m, ApiTextureHandle("Metal", r))

\* The texture lifecycle with the callers also dropping the textures they hold.
NextWithDrop == VulkanSucceedingOps(OneOfEach) \/ MetalSucceedingOps(OneOfEach) \/ DropOps

SpecWithDrop == Init /\ [][NextWithDrop]_vars

\* The same on the Vulkan manager alone.
NextVulkanDrop == VulkanSucceedingOps({"vkA"}) \/ \E t \in TexIds : Vulkan_drop(t)

SpecVulkanDrop == Init /\ [][NextVulkanDrop]_vars

\* One Vulkan manager: creation, export (of any held texture, any number of
\* times), import and release, every native call succeeding; no texture is
\* dropped.
NextOneVulkan == VulkanSucceedingOps({"vkA"})

SpecOneVulkan == Init /\ [][NextOneVulkan]_vars

\* Two Vulkan managers, each on a device of its own (vulkan_to_vulkan.rs).
TwoVulkan == {"vkA", "vkB"}

\* Two Vulkan managers that create and export their own textures and import
\* and release each other's handles.
NextTwoManagers ==
    \/ \E m \in TwoVulkan : Vulkan_create_shareable_texture(m, test_descriptor, "none")
    \/ \E m \in TwoVulkan, t \in TexIds :
          textures[t].mgr = m /\ Vulkan_export_texture(m, t, TRUE)
    \/ \E m \in TwoVulkan, r \in RawValues :
          Vulkan_import_texture(m, ApiTextureHandle("Vulkan", r), test_descriptor, "none")
    \/ \E m \in TwoVulkan, r \in RawValues :
          Vulkan_release_texture_handle(m, ApiTextureHandle("Vulkan", r))

SpecTwoManagers == Init /\ [][NextTwoManagers]_vars

\* Callers that pass different descriptors to create_shareable_texture and
\* import_texture, and then export and release (as test_metal_export_import
\* and test_vulkan_texture_creation do); no native step fails.
NextDescriptors ==
    \/ \E d \in Descriptors : Vulkan_create_shareable_texture("vkA", d, "none")
    \/ \E t \in TexIds : Vulkan_export_texture("vkA", t, TRUE)
    \/ \E r \in RawValues, d \in Descriptors :
          Vulkan_import_texture("vkA", ApiTextureHandle("Vulkan", r), d, "none")
    \/ \E d \in Descriptors : Metal_create_shareable_texture("mtl", d, "none")
    \/ \E t \in TexIds : Metal_export_texture("mtl", t)
    \/ \E r \in RawValues, d \in Descriptors :
          Metal_import_texture("mtl", ApiTextureHandle("Metal", r), d, TRUE)
    \/ \E r \in RawValues :
          Metal_release_texture_handle("mtl", ApiTextureHandle("Metal", r))

SpecDescriptors == Init /\ [][NextDescriptors]_vars

\* Sync primitives of one Vulkan manager: create, export, release.
NextSync == SyncExportOps({"vkA"}) \/ SyncReleaseOps({"vkA"})

SpecSync == Init /\ [][NextSync]_vars

\* Sync primitives of one Vulkan manager, imports included (the sequence of
\* the benchmark: create, export, import, release).
NextSyncImport ==
    SyncExportOps({"vkA"}) \/ SyncImportOps({"vkA"}) \/ SyncReleaseOps({"vkA"})

SpecSyncImport == Init /\ [][NextSyncImport]_vars

\* One Vulkan manager filling and emptying its three registries: textures
\* created, exported, imported and released next to semaphores and fences
\* created, exported and released, over the same raw handle values.  Only
\* succeeding calls; the callers make as many textures as sync objects, and
\* MaxSync sync objects of both kinds together.
NextRegistries ==
    \/ /\ Len(textures) < MaxSync
       /\ Vulkan_create_shareable_texture("vkA", test_descriptor, "none")
    \/ \E t \in TexIds : Vulkan_export_texture("vkA", t, TRUE)
    \/ \E r \in RawValues :
          /\ Len(textures) < MaxSync
          /\ Vulkan_import_texture("vkA", ApiTextureHandle("Vulkan", r), test_descriptor, "none")
    \/ \E r \in RawValues :
          Vulkan_release_texture_handle("vkA", ApiTextureHandle("Vulkan", r))
    \/ /\ Len(semaphores) + Len(fences) < MaxSync
       /\ create_exportable_semaphore("vkA", TRUE)
    \/ \E x \in 1..MaxSync : export_semaphore("vkA", x, TRUE)
    \/ /\ Len(semaphores) + Len(fences) < MaxSync
       /\ create_exportable_fence("vkA", TRUE)
    \/ \E x \in 1..MaxSync : export_fence("vkA", x, TRUE)
    \/ SyncReleaseOps({"vkA"})

SpecRegistries == Init /\ [][NextRegistries]_vars

\* Threads of one manager: textures are created by calls that run alone; the
\* exports, imports and releases run on the threads, interleaved step by step.
NextThreads ==
    \/ Vulkan_create_shareable_texture(SharedMgr, test_descriptor, "none")
    \/ \E th \in Threads : \E t \in TexIds : thread_export_native(th, t)
    \/ \E th \in Threads : \E r \in RawValues :
           thread_import_native(th, ApiTextureHandle("Vulkan", r))
    \/ \E th \in Threads : \E r \in RawValues :
           thread_release_begin(th, ApiTextureHandle("Vulkan", r))
    \/ \E th \in Threads : thread_lock(th)
    \/ \E th \in Threads : thread_read(th)
    \/ \E th \in Threads : thread_insert(th)
    \/ \E th \in Threads : thread_remove(th)
    \/ \E th \in Threads : thread_free(th)

SpecThreads == InitThreads /\ [][NextThreads]_vars

\* One timeline semaphore, signalled by a producer and waited for by a
\* consumer (examples/timeline_semaphore_pipeline.rs).
NextTimeline ==
    \/ \E v \in TimelineValues : create_exportable_timeline_semaphore(v)
    \/ \E v \in TimelineValues : signal_timeline_semaphore(v)
    \/ get_timeline_semaphore_value
    \/ \E v \in TimelineValues, finite \in BOOLEAN : wait_timeline_semaphore(v, finite)
    \/ wait_timeline_reached
    \/ wait_timeline_timed_out

SpecTimeline == Init /\ [][NextTimeline]_vars

\* ------------------------------------------------------------ the claims
\* The texture registry of manager m now, and before the last call.
Reg(m) == exported_resources[m]
PreReg(m) == last.pre_resources[m]

\* The last call was op, on a manager whose backend is the handle's tag.
LastMatching(op) == last.op = op /\ last.handle.tag = Backend(last.mgr)

\* C1: release_texture_handle is idempotent.  A release with a handle of the
\* manager's backend returns Ok and leaves no entry under the handle's value;
\* it frees exactly the memory that was registered under that value, so
\* nothing when there was none (never exported or imported, or released
\* before) and the registry is then as before; a release that repeats the
\* release before it frees nothing.
C1_ReleaseIdempotent ==
    LastMatching("release") =>
        LET k == last.handle.raw
            m == last.mgr
        IN  /\ last.result = Ok
            /\ k \notin DOMAIN Reg(m)
            /\ \A x \in DOMAIN Reg(m) : x \in DOMAIN PreReg(m) /\ Reg(m)[x] = PreReg(m)[x]
            /\ DOMAIN PreReg(m) \subseteq DOMAIN Reg(m) \cup {k}
            /\ \A other \in Mgrs \ {m} : Reg(other) = PreReg(other)
            /\ IF k \in DOMAIN PreReg(m)
               THEN Backend(m) = "Vulkan" => last.freed = {PreReg(m)[k]}
               ELSE last.freed = {} /\ exported_resources = last.pre_resources
            /\ last.again => last.freed = {} /\ exported_resources = last.pre_resources

\* C1 witness: a release that freed a registered memory was repeated.
C1_Witness ==
    /\ last.op = "release"
    /\ last.again
    /\ last.result = Ok
    /\ \E x \in 1..MaxTextures : free_calls[x] = 1

\* C2: export_texture of a texture that import_texture returned (one that
\* carries the handle it was imported under) fails and leaves the registry
\* unchanged, on every backend.
C2_ExportOfImportedFails ==
    (last.op = "export" /\ textures[last.tex].exported_handle # NoHandle) =>
        (last.result # Ok /\ exported_resources = last.pre_resources)

\* C3: once the handle of a texture was released (its backing memory was
\* freed by release_texture_handle), export_texture of that texture fails
\* and the registry gains no entry.
C3_ExportAfterReleaseFails ==
    (/\ last.op = "export"
     /\ textures[last.tex].allocation # None
     /\ free_calls[textures[last.tex].allocation] > 0) =>
        (last.result # Ok /\ exported_resources = last.pre_resources)

\* C4: in every state each memory object is registered under at most one
\* raw-handle key of a Vulkan manager, and no key maps to a freed memory.
C4_OneEntryPerLiveMemory ==
    \A m \in Mgrs : Backend(m) = "Vulkan" =>
        \A k1 \in DOMAIN Reg(m) :
            /\ free_calls[Reg(m)[k1]] = 0
            /\ \A k2 \in DOMAIN Reg(m) : Reg(m)[k1] = Reg(m)[k2] => k1 = k2

\* C5: after a successful import_texture the importing manager's registry
\* has an entry under the handle's identifying value.
C5_ImportRegisters ==
    (last.op = "import" /\ last.result = Ok) =>
        last.handle.raw \in DOMAIN Reg(last.mgr)

\* C6: import_texture with a handle whose value is already a registry key
\* allocates no second memory object and does not replace the entry.
C6_ReimportKeepsEntry ==
    (LastMatching("import") /\ last.handle.raw \in DOMAIN PreReg(last.mgr)) =>
        /\ last.handle.raw \in DOMAIN Reg(last.mgr)
        /\ Reg(last.mgr)[last.handle.raw] = PreReg(last.mgr)[last.handle.raw]
        /\ last.left_mems = 0

\* C7: a create_shareable_texture or import_texture that returns an error
\* leaves behind no native object it created.
C7_FailedCallLeavesNothing ==
    (last.op \in {"create", "import"} /\ last.result # Ok) =>
        (last.left_images = 0 /\ last.left_mems = 0)

\* C8: export_texture and import_texture are all-or-nothing: an error leaves
\* the registry as it was, Ok has put exactly one entry into the registry of
\* the called manager.
C8_AllOrNothing ==
    last.op \in {"export", "import"} =>
        IF last.result = Ok
        THEN /\ LET k == last.handle.raw IN
                  /\ k \in DOMAIN Reg(last.mgr)
                  /\ DOMAIN Reg(last.mgr) = DOMAIN PreReg(last.mgr) \cup {k}
                  /\ \A x \in DOMAIN PreReg(last.mgr) \ {k} :
                        Reg(last.mgr)[x] = PreReg(last.mgr)[x]
             /\ \A other \in Mgrs \ {last.mgr} : Reg(other) = PreReg(other)
        ELSE exported_resources = last.pre_resources

\* C9: import_texture and release_texture_handle with a handle of another
\* backend return InvalidTextureHandle, create and free no native object
\* and leave the registry unchanged.
C9_WrongBackendRejected ==
    (last.op \in {"import", "release"} /\ last.handle.tag # Backend(last.mgr)) =>
        /\ last.result = InvalidTextureHandle
        /\ last.left_images = 0
        /\ last.left_mems = 0
        /\ last.freed = {}
        /\ Len(textures) = last.pre_textures
        /\ exported_resources = last.pre_resources

\* C9 witness: a Vulkan manager holding an entry under value k was handed a
\* Metal handle with that value, by import or by release.
C9_Witness ==
    /\ last.op \in {"import", "release"}
    /\ last.mgr = "vkA"
    /\ last.handle.tag = "Metal"
    /\ last.handle.raw \in DOMAIN Reg("vkA")
    /\ last.result = InvalidTextureHandle

\* C10: create_shareable_texture leaves the texture, semaphore and fence
\* registries of every manager as they were, whether it succeeds or fails,
\* and a texture it returns has no exported handle recorded.
C10_CreateTouchesNoRegistry ==
    last.op = "create" =>
        /\ exported_resources = last.pre_resources
        /\ exported_semaphores = last.pre_semaphores
        /\ exported_fences = last.pre_fences
        /\ last.result = Ok =>
              /\ last.tex = Len(textures)
              /\ textures[last.tex].exported_handle = NoHandle

\* C10 witness: a create succeeded while a texture registry, the semaphore
\* registry and the fence registry each held an entry.
C10_Witness ==
    /\ last.op = "create"
    /\ last.result = Ok
    /\ \E m \in Mgrs : DOMAIN exported_resources[m] # {}
    /\ \E m \in Mgrs : DOMAIN exported_semaphores[m] # {}
    /\ \E m \in Mgrs : DOMAIN exported_fences[m] # {}

\* A registry entry that export_texture made: on Vulkan its value is the
\* gpu_allocator memory of a created texture, on Metal every entry is one.
MadeByExport(m, k) ==
    \/ Backend(m) = "Metal"
    \/ \E t \in TexIds : textures[t].allocation = PreReg(m)[k]

\* C11: a successful export_texture leaves the registry mapping the returned
\* raw handle to the texture's backing memory or IOSurface, and every entry
\* an export made stays, with its value, through every call (drops included)
\* other than release_texture_handle with that handle.
C11_ExportEntryStays ==
    /\ (last.op = "export" /\ last.result = Ok) =>
          /\ last.handle.raw \in DOMAIN Reg(last.mgr)
          /\ Reg(last.mgr)[last.handle.raw] = textures[last.tex].backing
    /\ \A m \in Mgrs : \A k \in DOMAIN PreReg(m) :
          (/\ MadeByExport(m, k)
           /\ ~(/\ last.op = "release"
                /\ last.mgr = m
                /\ last.handle = ApiTextureHandle(Backend(m), k))) =>
             /\ k \in DOMAIN Reg(m)
             /\ Reg(m)[k] = PreReg(m)[k]

\* C12: dropping a Vulkan texture destroys its image and nothing else: no
\* memory is freed and no registry gains or loses an entry, whether the
\* texture was created, exported or imported.
C12_DropDestroysImageOnly ==
    [][last'.op = "drop" =>
          /\ last'.result = Ok
          /\ live_images' = live_images \ {last'.tex}
          /\ free_calls' = free_calls
          /\ exported_resources' = exported_resources
          /\ exported_semaphores' = exported_semaphores
          /\ exported_fences' = exported_fences]_vars

\* C12 witness: an exported texture and an imported texture have both been
\* dropped while their registry entries and memories are in place.
C12_Witness ==
    /\ last.op = "drop"
    /\ \E t1, t2 \in TexIds :
          /\ textures[t1].dropped /\ textures[t2].dropped
          /\ textures[t1].allocation # None /\ textures[t2].exported_handle # NoHandle
          /\ \E k1, k2 \in DOMAIN Reg("vkA") :
                /\ Reg("vkA")[k1] = textures[t1].backing
                /\ Reg("vkA")[k2] = textures[t2].backing
          /\ free_calls[textures[t1].backing] = 0
          /\ free_calls[textures[t2].backing] = 0

\* C13: for every exported or imported texture, release then drop and drop
\* then release both succeed and end with the image destroyed, the backing
\* memory freed exactly once and no registry entry for it; a drop without a
\* release leaves the registry entry and the memory in place: a dropped
\* texture's memory is either still registered and not freed, or
\* unregistered and freed once (never twice, and for an imported texture
\* never unregistered without having been freed).
C13_ReleaseAndDropCommute ==
    /\ last.op \in {"drop", "release"} => last.result = Ok
    /\ last.op = "drop" =>
          /\ exported_resources = last.pre_resources
          /\ last.freed = {}
    /\ \A t \in TexIds :
          textures[t].dropped =>
             LET mem == textures[t].backing IN
             /\ t \notin live_images
             /\ IF \E k \in DOMAIN Reg("vkA") : Reg("vkA")[k] = mem
                THEN free_calls[mem] = 0
                ELSE IF textures[t].exported_handle # NoHandle
                THEN free_calls[mem] = 1
                ELSE free_calls[mem] <= 1
    /\ \A t \in TexIds :
          (last.op = "release" /\ last.freed = {textures[t].backing}) =>
             /\ free_calls[textures[t].backing] = 1
             /\ \A k \in DOMAIN Reg("vkA") : Reg("vkA")[k] # textures[t].backing

\* The memory objects registered by manager m.
Registered(m) == {exported_resources[m][k] : k \in DOMAIN exported_resources[m]}

\* C14: a release_texture_handle on manager B changes B's registry only and
\* frees only memory B had registered: the registry of every other manager,
\* the memory registered there, and every SharedTexture with its image are
\* as before, also when the other manager holds an entry under the same raw
\* handle value.
C14_ReleaseStaysInManager ==
    [][last'.op = "release" =>
          LET B == last'.mgr IN
          /\ last'.result = Ok
          /\ textures' = textures
          /\ live_images' = live_images
          /\ \A A \in Mgrs \ {B} : exported_resources'[A] = exported_resources[A]
          /\ \A x \in DOMAIN free_calls :
                free_calls'[x] # free_calls[x] =>
                   /\ x \in Registered(B)
                   /\ \A A \in Mgrs \ {B} : x \notin Registered(A)
                   /\ \A t \in TexIds : textures[t].mgr # B => textures[t].backing # x]_vars

\* C14 witness: manager vkB released the handle value under which vkA still
\* has its exported texture's memory registered, live and never freed.
C14_Witness ==
    /\ last.op = "release"
    /\ last.mgr = "vkB"
    /\ last.freed # {}
    /\ last.handle.raw \in DOMAIN Reg("vkA")
    /\ \E t \in TexIds :
          /\ textures[t].mgr = "vkA"
          /\ textures[t].allocation = Reg("vkA")[last.handle.raw]
          /\ free_calls[textures[t].allocation] = 0
          /\ t \in live_images

\* C15: the texture a successful create_shareable_texture(D) or
\* import_texture(h, D) returns answers width, height, format and usage with
\* D's values, and no later call changes what any texture answers.
C15_AccessorsReturnDescriptor ==
    [][/\ \A t \in TexIds :
             /\ width(textures'[t]) = width(textures[t])
             /\ height(textures'[t]) = height(textures[t])
             /\ format(textures'[t]) = format(textures[t])
             /\ usage(textures'[t]) = usage(textures[t])
       /\ (last'.op \in {"create", "import"} /\ last'.result = Ok) =>
             /\ last'.tex = Len(textures) + 1
             /\ width(textures'[last'.tex]) = last'.descriptor.width
             /\ height(textures'[last'.tex]) = last'.descriptor.height
             /\ format(textures'[last'.tex]) = last'.descriptor.format
             /\ usage(textures'[last'.tex]) = last'.descriptor.usage]_vars

\* C15 witness: after a release, a created texture still answers with
\* format_mappings_desc's values and an imported one with texture_desc's.
C15_Witness ==
    /\ last.op = "release"
    /\ last.handle.raw \in DOMAIN PreReg(last.mgr)
    /\ \E t1, t2 \in TexIds :
          /\ textures[t1].exported_handle = NoHandle
          /\ width(textures[t1]) = 128 /\ format(textures[t1]) = "Bgra8Unorm"
          /\ textures[t2].exported_handle # NoHandle
          /\ width(textures[t2]) = 1024 /\ height(textures[t2]) = 768
          /\ format(textures[t2]) = "Rgba8Unorm"
          /\ Len(usage(textures[t2])) = 4
\* C16: calls running concurrently on one manager leave the registry as the
\* same calls do when run one at a time, in the order in which they reach the
\* table, and free every memory object exactly as often: whenever no thread
\* is inside the lock the registry is the one of that sequential order, and
\* whenever no free is pending the frees are too.  Two concurrent releases
\* of one handle therefore free its memory once.
C16_RegistryIsSequential ==
    /\ mutex = Unlocked => exported_resources[SharedMgr] = lin.registry
    /\ (\A th \in Threads : threads[th].pc # "free") => free_calls = lin.frees

\* One release is freeing the memory it found while another release of the
\* same handle waits for the lock.
C16_Witness ==
    \E th1, th2 \in Threads :
        /\ th1 # th2
        /\ threads[th1].op = "release" /\ threads[th1].pc = "free"
        /\ threads[th2].op = "release" /\ threads[th2].pc = "lock"
        /\ threads[th1].raw = threads[th2].raw

\* C17: release_semaphore and release_fence always return Ok.  When the raw
\* value of the handle is a key of the manager's registry the call removes
\* exactly that entry and destroys the object it named, once; otherwise it
\* changes neither the registry nor any object.  A call that repeats the one
\* before it destroys nothing.
C17_SyncReleaseIdempotent ==
    [][last'.op \in {"release_semaphore", "release_fence"} =>
         LET m == last'.mgr
             k == last'.handle.raw
             sem == last'.op = "release_semaphore"
             reg == IF sem THEN exported_semaphores[m] ELSE exported_fences[m]
             reg_after == IF sem THEN exported_semaphores'[m] ELSE exported_fences'[m]
             objs == IF sem THEN semaphores ELSE fences
             objs_after == IF sem THEN semaphores' ELSE fences'
         IN /\ last'.result = Ok
            /\ IF k \in DOMAIN reg
               THEN /\ DOMAIN reg_after = DOMAIN reg \ {k}
                    /\ \A x \in DOMAIN reg_after : reg_after[x] = reg[x]
                    /\ objs_after = [objs EXCEPT ![reg[k]] = @ + 1]
               ELSE reg_after = reg /\ objs_after = objs
            /\ last'.again => objs_after = objs
            /\ \A n \in Mgrs \ {m} :
                   /\ exported_semaphores'[n] = exported_semaphores[n]
                   /\ exported_fences'[n] = exported_fences[n]
            /\ IF sem THEN fences' = fences /\ exported_fences' = exported_fences
                      ELSE semaphores' = semaphores /\ exported_semaphores' = exported_semaphores
    ]_vars

\* The release of the only handle exported so far was repeated: the repeated
\* call found no entry and returned Ok, and the object that handle named was
\* destroyed once.
C17_Witness ==
    /\ last.op \in {"release_semaphore", "release_fence"}
    /\ last.again
    /\ last.result = Ok
    /\ last.freed = {}
    /\ n_raw = 1
    /\ last.handle.raw = n_raw
    /\ LET objs == IF last.op = "release_semaphore" THEN semaphores ELSE fences IN
       \E x \in DOMAIN objs : objs[x] = 1

\* C18: a semaphore or fence that import_semaphore_* / import_fence_*
\* returned is registered on the importing manager under the raw value of
\* the handle it was imported from (so that release_semaphore /
\* release_fence with that handle destroys it).
C18_ImportedSyncRegistered ==
    (last.op \in {"import_semaphore", "import_fence"} /\ last.result = Ok) =>
        LET reg == IF last.op = "import_semaphore" THEN exported_semaphores[last.mgr]
                                                  ELSE exported_fences[last.mgr]
        IN /\ last.handle.raw \in DOMAIN reg
           /\ reg[last.handle.raw] = last.tex

\* C19: import_semaphore_* and import_fence_* create the local object first:
\* a call whose creation step failed creates nothing and makes no native
\* import call, and every other call makes the native import call on the
\* object that this very call created and on no other.
C19_CreatedThenImportedInto ==
    [][last'.op \in {"import_semaphore", "import_fence"} /\ last' # last =>
         LET objs == IF last'.op = "import_semaphore" THEN semaphores ELSE fences
             objs_after == IF last'.op = "import_semaphore" THEN semaphores' ELSE fences'
         IN IF Len(objs_after) = Len(objs)
            THEN \* nothing was created
                 /\ last'.imported_into = None
                 /\ last'.result # Ok
            ELSE /\ Len(objs_after) = Len(objs) + 1
                 /\ last'.imported_into = Len(objs_after)
                 /\ last'.tex = last'.imported_into
                 /\ last'.imported_into \notin DOMAIN objs
    ]_vars

\* An import created its object and imported the handle into it while an
\* older object of the same kind existed.
C19_Witness ==
    /\ last.op \in {"import_semaphore", "import_fence"}
    /\ last.result = Ok
    /\ last.imported_into = last.tex
    /\ last.tex > 1

\* An import whose creation step failed: no object, no native import call.
C19_WitnessCreationFailed ==
    /\ last.op \in {"import_semaphore", "import_fence"}
    /\ last.result # Ok
    /\ last.tex = 0
    /\ last.imported_into = None

\* The operations on sync primitives, and those on textures.
SyncOpNames == {"create_semaphore", "export_semaphore", "release_semaphore",
                "create_fence", "export_fence", "release_fence"}

TextureOpNames == {"create", "export", "import", "release"}

\* C20: the three registries are independent.  A step that creates, exports
\* or releases a semaphore or fence changes neither the texture registry nor
\* the vkFreeMemory counts nor any texture; a step that creates, exports,
\* imports or releases a texture changes neither sync registry nor any
\* semaphore or fence; a semaphore step leaves the fences alone and a fence
\* step the semaphores.  This holds also when the raw value of the handle is
\* a key of another registry.
C20_RegistriesIndependent ==
    [][/\ last'.op \in SyncOpNames =>
            /\ exported_resources' = exported_resources
            /\ free_calls' = free_calls
            /\ textures' = textures
            /\ live_images' = live_images
       /\ last'.op \in TextureOpNames =>
            /\ exported_semaphores' = exported_semaphores
            /\ exported_fences' = exported_fences
            /\ semaphores' = semaphores
            /\ fences' = fences
       /\ last'.op \in {"create_semaphore", "export_semaphore", "release_semaphore"} =>
            exported_fences' = exported_fences /\ fences' = fences
       /\ last'.op \in {"create_fence", "export_fence", "release_fence"} =>
            exported_semaphores' = exported_semaphores /\ semaphores' = semaphores
    ]_vars

\* A semaphore was released and destroyed under a raw value that is also a
\* key of the texture registry of the same manager, where it still is.
C20_Witness ==
    /\ last.op = "release_semaphore"
    /\ last.freed # {}
    /\ last.handle.raw \in DOMAIN last.pre_resources[last.mgr]
    /\ last.handle.raw \in DOMAIN exported_resources[last.mgr]
    /\ free_calls[exported_resources[last.mgr][last.handle.raw]] = 0

\* A texture handle was released and its memory freed under a raw value that
\* is also a key of the semaphore registry, where it still is.
C20_WitnessTexture ==
    /\ last.op = "release"
    /\ last.freed # {}
    /\ last.handle.raw \in DOMAIN exported_semaphores[last.mgr]
    /\ semaphores[exported_semaphores[last.mgr][last.handle.raw]] = 0

\* C21: for a timeline semaphore created with value 0, the value read before
\* any signal is 0; a wait for a value that was already signalled when the
\* wait started returns success, never the timeout, whichever waits came
\* before it; a wait with a finite timeout for a value above the counter,
\* with no signal while it waits, returns the timeout and never success.
C21_TimelineWaits ==
    (timeline # Unused /\ timeline.initial = 0) =>
        /\ (timeline.op = "get" /\ ~timeline.signalled) => timeline.returned = 0
        /\ (timeline.op = "wait" /\ timeline.pc = "idle") =>
              /\ (timeline.signalled /\ timeline.arg <= timeline.top) =>
                     timeline.result = Ok
              /\ (timeline.arg > timeline.at_start /\ ~timeline.signal_during) =>
                     timeline.result = Timeout

\* Waits out of order: a wait returned success right after a wait for a
\* higher value did (frame 3 after frame 5 in the example).
C21_Witness ==
    /\ timeline # Unused
    /\ timeline.initial = 0
    /\ timeline.op = "wait" /\ timeline.pc = "idle"
    /\ timeline.result = Ok
    /\ timeline.signalled
    /\ timeline.arg > 0
    /\ timeline.arg < timeline.before
    /\ timeline.before <= timeline.top

\* A wait with a finite timeout for a value above the counter timed out.
C21_WitnessTimeout ==
    /\ timeline # Unused
    /\ timeline.initial = 0
    /\ timeline.op = "wait" /\ timeline.pc = "idle"
    /\ timeline.signalled
    /\ timeline.arg > timeline.value
    /\ timeline.result = Timeout

\* C22: from_wgpu_format(to_wgpu_format(f)) is Ok(f) for every abstract
\* format f, and from_wgpu_format returns UnsupportedFormat for every wgpu
\* format that to_wgpu_format produces for no abstract format.
C22_WgpuRoundTrip ==
    eval.fn = "from_wgpu_format" =>
        /\ eval.format # "none" => eval.back = [result |-> Ok, value |-> eval.format]
        /\ (\A f \in TextureFormats : to_wgpu_format(f) # eval.native) =>
               eval.back.result = UnsupportedFormat

\* The sRGB format, whose wgpu name differs from its own, came back.
C22_Witness ==
    /\ eval.fn = "from_wgpu_format"
    /\ eval.format = "Rgba8Srgb"
    /\ eval.native = "Rgba8UnormSrgb"
    /\ eval.back.value = "Rgba8Srgb"

\* A wgpu format outside the table was rejected.
C22_WitnessUnsupported ==
    /\ eval.fn = "from_wgpu_format"
    /\ eval.native = "Rgba8Uint"
    /\ eval.back.result = UnsupportedFormat

\* C23: the format table of the Vulkan and of the Metal backend maps
\* distinct abstract formats to distinct native formats.
C23_NativeFormatsDistinct ==
    eval.fn = "map_texture_format" =>
        (eval.formats[1] # eval.formats[2] => eval.natives[1] # eval.natives[2])

\* The set of usage flags that occur in a usage list.
FlagsOf(usages) == {usages[i] : i \in DOMAIN usages}

\* C24: for each usage table, a list of one flag maps to a non-empty
\* bitmask, the bitmask of a concatenation is the OR of the bitmasks of its
\* parts, and two lists with the same flags, in any order and with any
\* repetition, map to the same bitmask.
C24_UsageTables ==
    eval.fn \in {"map_texture_usage_to_vk", "map_texture_usage_to_mtl", "to_wgpu_usage"} =>
        /\ Len(eval.a) = 1 => eval.of_a # empty
        /\ eval.of_ab = eval.of_a \cup eval.of_b
        /\ FlagsOf(eval.a) = FlagsOf(eval.b) => eval.of_a = eval.of_b

\* Two different flags in both orders, mapped by the Vulkan table.
C24_Witness ==
    /\ eval.fn = "map_texture_usage_to_vk"
    /\ eval.a = <<"CopySrc", "RenderAttachment">>
    /\ eval.b = <<"RenderAttachment", "CopySrc">>
    /\ eval.of_a = {"TRANSFER_SRC", "COLOR_ATTACHMENT"}
    /\ eval.of_ab = eval.of_a

\* A repeated flag and a single one, mapped by the Metal table.
C24_WitnessRepeated ==
    /\ eval.fn = "map_texture_usage_to_mtl"
    /\ eval.a = <<"CopyDst", "CopyDst">>
    /\ eval.b = <<"CopyDst">>
    /\ eval.of_a = {"ShaderWrite"}

\* C25: no operation goes on with a default format in place of a format it
\* has no mapping for: every image the plugin creates for an import event has
\* the native format of the event's descriptor.
C25_NoDefaultFormat ==
    eval.fn = "process_shared_texture_events" =>
        \A i \in DOMAIN eval.images :
            eval.images[i].format = to_wgpu_format(eval.event.format)

\* C26: two descriptors are equal exactly when all five fields agree, and
\* after inserting both into a set the set has two entries unless they are
\* equal; in particular two descriptors that differ only in the label are
\* unequal and occupy two entries.
C26_DescriptorKeyIsStructural ==
    /\ eval.equal <=> eval.desc1 = eval.desc2
    /\ eval.fn = "insert_desc2" =>
          Len(eval.set) = (IF eval.desc1 = eval.desc2 THEN 1 ELSE 2)

\* The two descriptors of the test, which differ only in the label, are
\* both in the set.
C26_Witness ==
    /\ eval.fn = "insert_desc2"
    /\ eval.desc1.label = <<"A">>
    /\ eval.desc2 = [eval.desc1 EXCEPT !.label = <<"B">>]
    /\ ~eval.equal
    /\ Len(eval.set) = 2

\* The same descriptor inserted twice occupies one entry.
C26_WitnessSame ==
    /\ eval.fn = "insert_desc2"
    /\ eval.desc1 = eval.desc2
    /\ Len(eval.set) = 1

\* C27: the memory_type_index of an exported handle is a compatible type of
\* the image: it is below the device's memory_type_count, its bit is set in
\* the image's memory_type_bits, and no lower bit is set, for every mask and
\* every type count.
C27_LowestCompatibleType ==
    eval.fn = "export_texture" =>
        /\ eval.memory_type_index < eval.memory_type_count
        /\ TypeBitSet(eval.memory_type_bits, eval.memory_type_index)
        /\ \A j \in 0..(eval.memory_type_index - 1) : ~TypeBitSet(eval.memory_type_bits, j)

\* C28: over any sequence of create, export, import and release on one
\* Vulkan manager, no memory object is passed to vkFreeMemory more than once.
C28_NoMemoryFreedTwice ==
    \A memory \in DOMAIN free_calls :
        free_calls[memory] > 0 => free_calls[memory] = 1

\* C29: no thread holds more than one of the manager's locks at any time;
\* whenever a call is running, some running call can take its next step
\* (concurrent calls never deadlock); and every call that is running
\* eventually returns.
C29_OneLockAtATime ==
    /\ [](\A th \in Threads : Cardinality(locks.running[th].held) <= 1)
    /\ []((\E th \in Threads : locks.running[th].op # "none") =>
             \E th \in Threads : ENABLED RunningStep(th))
    /\ \A th \in Threads :
          (locks.running[th].op # "none") ~> (locks.running[th].op = "none")

\* One thread holds the texture registry inside release_texture_handle
\* while the other holds the allocator inside create_shareable_texture.
C29_Witness ==
    /\ locks.running["t1"].op = "release_texture_handle"
    /\ locks.running["t1"].held = {"exported_resources"}
    /\ locks.running["t2"].op = "create_shareable_texture"
    /\ locks.running["t2"].held = {"allocator"}

\* One thread waits for the texture registry that the other holds.
C29_WitnessBlocked ==
    /\ locks.running["t1"].op = "export_texture"
    /\ locks.running["t1"].held = {}
    /\ locks.running["t1"].pc = 1
    /\ locks.holder["exported_resources"] = "t2"

\* C30: when the native import fails inside import_semaphore or
\* import_fence, the semaphore or fence the call created has been destroyed
\* by the time the error is returned.
C30_FailedSyncImportDestroys ==
    /\ (last.op = "import_semaphore" /\ last.result # Ok /\ last.tex # None) =>
           semaphores[last.tex] = 1
    /\ (last.op = "import_fence" /\ last.result # Ok /\ last.tex # None) =>
           fences[last.tex] = 1

\* C31: import_texture allocates with the size and the memory_type_index of
\* the handle, not with a type resolved on the importing device, and chains
\* a dedicated-allocation record naming the image created in the same call,
\* whether or not the handle's dedicated_allocation flag is set.
C31_ImportAllocatesAsHandleSays ==
    eval.fn = "import_texture" =>
        /\ eval.alloc_info.allocation_size = eval.vulkan_handle.size
        /\ eval.alloc_info.memory_type_index = eval.vulkan_handle.memory_type_index
        /\ eval.image = eval.images
        /\ eval.alloc_info.p_next.image = eval.image

\* A handle without the dedicated flag, whose type is not the one the
\* importing device would resolve, was imported.
C31_Witness ==
    /\ eval.fn = "import_texture"
    /\ ~eval.vulkan_handle.dedicated_allocation
    /\ eval.vulkan_handle.memory_type_index = 2
    /\ memory_type_index(eval.device.memory_type_count, eval.device.memory_type_bits,
                         eval.device.build) = 1
    /\ eval.alloc_info.memory_type_index = 2
    /\ eval.alloc_info.p_next.image = 1

\* C32: wait_for_event blocks until the event has reached the value: every
\* call that has returned returned Ok, having read a signaled value that is
\* at least the value waited for, also when the wait started below it.
C32_WaitForEventBlocks ==
    eval.wait.event # None =>
        /\ eval.wait.result = Ok
        /\ eval.wait.before >= eval.wait.value

\* C33: in the timeline example the producer signals n+1 before it sends
\* FrameReady{n} and the signalled values are 1, 2, ..., MaxFrames in this
\* order, so
\* whenever the consumer handles FrameReady{n} the counter is at least n+1
\* and its wait needs no later producer step.
C33_SignalBeforeNotify ==
    eval.example = "timeline_ipc" =>
        /\ \A i \in DOMAIN eval.signalled : eval.signalled[i] = i
        /\ Len(eval.signalled) <= MaxFrames
        /\ \/ eval.procs["producer"].pc = "send_shutdown"
           \/ <<SendPath("producer"), Message("Shutdown", 0)>> \in eval.sent
           => Len(eval.signalled) = MaxFrames
        /\ \A s \in eval.sent :
               s[2].type = "FrameReady" => s[2].frame_number + 1 <= Len(eval.signalled)
        /\ eval.procs["consumer"].pc = "handle_frame" =>
               eval.counter >= eval.procs["consumer"].frame + 1

\* The consumer handles FrameReady{1} with the counter at 2.
C33_Witness ==
    /\ eval.example = "timeline_ipc"
    /\ eval.procs["consumer"].pc = "handle_frame"
    /\ eval.procs["consumer"].frame = 1
    /\ eval.counter = 2

\* C34: the consumer's first three receive calls return TextureHandle,
\* SemaphoreHandle and ProducerReady, in this order.
C34_HandshakeInOrder ==
    \A i \in DOMAIN eval.procs["consumer"].received :
        eval.procs["consumer"].received[i].type =
            <<"TextureHandle", "SemaphoreHandle", "ProducerReady">>[i]

\* C35: what a receive reads from a channel is never a partially written
\* file: it is a complete message that a send on that channel wrote.
C35_ReceiveSeesWholeMessages ==
    \A x \in Processes :
        /\ eval.procs[x].error # "InvalidData"
        /\ eval.procs[x].data # NoFile =>
               /\ eval.procs[x].data # Partial
               /\ <<ReceivePath(x), eval.procs[x].data>> \in eval.sent

\* The consumer has read a whole TextureHandle, and reads again, while the
\* producer is in the middle of writing its next message.
C35_Witness ==
    /\ eval.procs["consumer"].data = Message("TextureHandle", 0)
    /\ eval.procs["consumer"].io = "exists"
    /\ eval.files[TempPath(SendPath("producer"))] = Partial
    /\ eval.procs["producer"].io = "writing"

\* C36: the consumer handles every FrameReady once and in send order, and
\* when it has received Shutdown it has handled as many frames as were sent.
C36_FramesHandledOnceInOrder ==
    /\ \A i \in DOMAIN eval.procs["consumer"].handled :
           eval.procs["consumer"].handled[i] = i - 1
    /\ eval.procs["consumer"].data = Message("Shutdown", 0) =>
           Len(eval.procs["consumer"].handled) = MaxFrames

\* C37: the shared_textures entry of an entity that an import event was
\* processed for is present as long as the entity exists, whichever of the
\* two Update systems runs first in a frame.
C37_EntryStaysWhileEntityExists ==
    \A entity \in eval.imported :
        entity \in eval.entities => entity \in eval.shared_textures

====
